---- MODULE Spec2Model ----
(***************************************************************************)
(* Traevo backend: the financial risk projection engine                    *)
(* (app/services/ia_analysis_service.py), the budget status aggregator     *)
(* (app/services/orcamento_service.py) and the repositories they read.     *)
(*                                                                         *)
(* Money is held in integer cents (the columns are Numeric(10, 2)).        *)
(* Results of Decimal division and multiplication are held as decimal      *)
(* numbers [c |-> digits, e |-> exponent] and computed as Python's decimal *)
(* module computes them: 28 significant digits, ROUND_HALF_EVEN.           *)
(***************************************************************************)
EXTENDS Integers, Sequences, FiniteSets, TLC

(***************************************************************************)
(* Python decimal arithmetic (default context)                             *)
(***************************************************************************)

\* decimal.getcontext().prec, the precision of every / and * below
Prec == 28

\* a decimal number: c = significant digits, most significant first, without
\* leading or trailing zeros (<<>> is zero); value = c * 10^e
DecZero == [c |-> <<>>, e |-> 0]

RECURSIVE IntDigits(_)
IntDigits(n) == IF n = 0 THEN <<>> ELSE Append(IntDigits(n \div 10), n % 10)

RECURSIVE DigitsInt(_)
DigitsInt(c) ==
    IF c = <<>> THEN 0 ELSE DigitsInt(SubSeq(c, 1, Len(c) - 1)) * 10 + c[Len(c)]

RECURSIVE Pow10(_)
Pow10(k) == IF k = 0 THEN 1 ELSE 10 * Pow10(k - 1)

RECURSIVE DecNorm(_, _)
DecNorm(c, e) ==
    IF c = <<>> THEN DecZero
    ELSE IF c[1] = 0 THEN DecNorm(Tail(c), e)
    ELSE IF c[Len(c)] = 0 THEN DecNorm(SubSeq(c, 1, Len(c) - 1), e + 1)
    ELSE [c |-> c, e |-> e]

\* the decimal with the value n * 10^e of an integer n >= 0
DecOfInt(n, e) == DecNorm(IntDigits(n), e)

RECURSIVE DigitsInc(_)
DigitsInc(c) ==
    IF c = <<>> THEN <<1>>
    ELSE IF c[Len(c)] < 9 THEN [c EXCEPT ![Len(c)] = @ + 1]
    ELSE Append(DigitsInc(SubSeq(c, 1, Len(c) - 1)), 0)

\* ROUND_HALF_EVEN of the digits c to their first keep digits (keep >= 0)
RoundHalfEven(c, keep) ==
    IF keep >= Len(c) THEN c
    ELSE LET kept == SubSeq(c, 1, keep)
             first == c[keep + 1]
             rest == \E i \in (keep + 2)..Len(c) : c[i] # 0
             odd == keep > 0 /\ c[keep] % 2 = 1
             up == first > 5 \/ (first = 5 /\ (rest \/ odd))
         IN  IF up THEN DigitsInc(kept) ELSE kept

\* the context rounding of a result with digits c and exponent e (Decimal._fix)
DecFix(c, e) ==
    IF Len(c) <= Prec THEN DecNorm(c, e)
    ELSE DecNorm(RoundHalfEven(c, Prec), e + (Len(c) - Prec))

RECURSIVE MulDigits(_, _, _)
MulDigits(c, k, carry) ==
    IF c = <<>> THEN IntDigits(carry)
    ELSE LET p == c[Len(c)] * k + carry
         IN  Append(MulDigits(SubSeq(c, 1, Len(c) - 1), k, p \div 10), p % 10)

\* x * (k * 10^ke) for a decimal x and an integer k >= 0 (Decimal.__mul__)
DecMul(x, k, ke) == DecFix(MulDigits(x.c, k, 0), x.e + ke)

\* long division: the digits of r / d after those of acc, until the division
\* is exact or Prec significant digits are there
RECURSIVE DivDigits(_, _, _, _)
DivDigits(r, d, acc, e) ==
    IF r = 0 \/ Len(acc) >= Prec THEN [c |-> acc, e |-> e, r |-> r]
    ELSE LET dgt == (r * 10) \div d
         IN  DivDigits((r * 10) % d, d,
                       IF acc = <<>> /\ dgt = 0 THEN <<>> ELSE Append(acc, dgt),
                       e - 1)

\* (n * 10^ne) / d for integers n >= 0, d > 0 (Decimal.__truediv__): the
\* quotient correctly rounded to Prec significant digits
DecDiv(n, ne, d) ==
    LET q == DivDigits(n % d, d, IntDigits(n \div d), 0)
        odd == q.c # <<>> /\ q.c[Len(q.c)] % 2 = 1
        up == 2 * q.r > d \/ (2 * q.r = d /\ odd)
    IN  IF q.r = 0 THEN DecNorm(q.c, q.e + ne)
        ELSE DecFix(IF up THEN DigitsInc(q.c) ELSE q.c, q.e + ne)

\* DecQuantizeCents with ROUND_HALF_UP instead of the rounding of the context
DecQuantizeCents_meiaacima(x) ==
    IF x.e >= -2 THEN DigitsInt(x.c) * Pow10(x.e + 2)
    ELSE LET keep == Len(x.c) + x.e + 2
         IN  IF keep < 0 THEN 0
             ELSE IF x.c[keep + 1] >= 5
             THEN DigitsInt(DigitsInc(SubSeq(x.c, 1, keep)))
             ELSE DigitsInt(SubSeq(x.c, 1, keep))

\* x.quantize(Decimal("0.01")) as integer cents
DecQuantizeCents(x) ==
    IF x.e >= -2 THEN DigitsInt(x.c) * Pow10(x.e + 2)
    ELSE LET keep == Len(x.c) + x.e + 2
         IN  IF keep < 0 THEN 0 ELSE DigitsInt(RoundHalfEven(x.c, keep))

\* the integer part of a decimal
DecFloor(x) ==
    IF x.e >= 0 THEN DigitsInt(x.c) * Pow10(x.e)
    ELSE IF Len(x.c) + x.e <= 0 THEN 0
    ELSE DigitsInt(SubSeq(x.c, 1, Len(x.c) + x.e))

\* x > k for a decimal x and an integer k >= 0 (Decimal.__gt__)
DecGT(x, k) == DecFloor(x) > k \/ (DecFloor(x) = k /\ x.e < 0)

(***************************************************************************)
(* Bounds and domains                                                      *)
(***************************************************************************)

\* at most this many ledger entries, budgets and predictions are stored
MaxTransacoes == 3
MaxOrcamentos == 2
MaxPrevisoes == 2

Usuarios == {"u1", "u2"}
Reqs == {"r1", "r2", "r3"}

\* TRAEVO_CATEGORIAS: c1 is global (ID_USUARIO is NULL), c2 belongs to u1,
\* c3 to u2
NULL == "NULL"
Categorias ==
    { [ID_CATEGORIA |-> "c1", NOME |-> "Mercado", ID_USUARIO |-> NULL],
      [ID_CATEGORIA |-> "c2", NOME |-> "Lazer", ID_USUARIO |-> "u1"],
      [ID_CATEGORIA |-> "c3", NOME |-> "Aluguel", ID_USUARIO |-> "u2"] }

(***************************************************************************)
(* Calendar (datetime)                                                     *)
(***************************************************************************)

Bissexto(ano) == ano % 4 = 0 /\ (ano % 100 # 0 \/ ano % 400 = 0)

\* the last day of a month
DiasDoMes(ano, mes) ==
    IF mes = 2 THEN (IF Bissexto(ano) THEN 29 ELSE 28)
    ELSE IF mes \in {4, 6, 9, 11} THEN 30 ELSE 31

Data(ano, mes, dia) == [ano |-> ano, mes |-> mes, dia |-> dia]

DataValida(d) ==
    d.mes \in 1..12 /\ d.dia >= 1 /\ d.dia <= DiasDoMes(d.ano, d.mes)

\* the first year of the calendar of the model
AnoBase == 2025

RECURSIVE DiasAntesDoMes(_, _)
DiasAntesDoMes(ano, mes) ==
    IF ano = AnoBase /\ mes = 1 THEN 0
    ELSE IF mes = 1 THEN DiasAntesDoMes(ano - 1, 12) + DiasDoMes(ano - 1, 12)
    ELSE DiasAntesDoMes(ano, mes - 1) + DiasDoMes(ano, mes - 1)

\* date.toordinal(), counted from the first day of AnoBase
Ordinal(d) == DiasAntesDoMes(d.ano, d.mes) + d.dia

(***************************************************************************)
(* State                                                                   *)
(***************************************************************************)

VARIABLES
    transacoes,       \* TRAEVO_TRANSACOES: the set of ledger entries
    orcamentos,       \* TRAEVO_ORCAMENTOS: the set of budgets
    previsoes,        \* TRAEVO_PREVISOES_IA: the set of predictions
    now,              \* datetime.now(), as a date
    pc,               \* pc[r]: where request r is
    usuario_id,       \* usuario_id[r]: the user request r is made for
    pedido,           \* pedido[r]: the operation r runs and its arguments
    agora,            \* agora[r]: the values of now the request has taken
    historico,        \* locals of gerar_previsao and of the functions it calls
    estatisticas,
    valor_projetado,
    orcamentos_lidos, \* the budgets _calcular_indice_risco has read
    indice_risco,
    mensagem_insight,
    resultado         \* resultado[r]: what the request returned

store == <<transacoes, orcamentos, previsoes>>
locals == <<agora, historico, estatisticas, valor_projetado, orcamentos_lidos,
            indice_risco, mensagem_insight, resultado>>
vars == <<transacoes, orcamentos, previsoes, now, pc, usuario_id, pedido, agora,
          historico, estatisticas, valor_projetado, orcamentos_lidos, indice_risco,
          mensagem_insight, resultado>>

\* the value of a local that is not yet assigned
None == [none |-> TRUE]

(***************************************************************************)
(* Repositories                                                            *)
(***************************************************************************)

RECURSIVE Soma(_, _)
\* sum of f[x] over the finite set S: SQL SUM / Python sum()
Soma(S, f) ==
    IF S = {} THEN 0
    ELSE LET x == CHOOSE y \in S : TRUE IN f[x] + Soma(S \ {x}, f)

ValorDe(S) == [t \in S |-> t.VALOR]
LimiteDe(S) == [o \in S |-> o.LIMITE_TOTAL]

\* get_totais_por_tipo that counts only the entries of the categories the
\* user has a budget for in the period
get_totais_por_tipo_orcadas(trs, usuario, mes, ano) ==
    LET orcadas == { o.ID_CATEGORIA : o \in { x \in orcamentos :
                         /\ x.ID_USUARIO = usuario
                         /\ x.MES_REFERENCIA = mes
                         /\ x.ANO_REFERENCIA = ano } }
        filtro == { t \in trs : /\ t.ID_USUARIO = usuario
                                /\ t.ID_CATEGORIA \in orcadas
                                /\ t.DATA_TRANSACAO.mes = mes
                                /\ t.DATA_TRANSACAO.ano = ano }
        entradas == Soma({ t \in filtro : t.TIPO = "ENTRADA" }, ValorDe(trs))
        saidas == Soma({ t \in filtro : t.TIPO = "SAIDA" }, ValorDe(trs))
    IN  [total_entradas |-> entradas, total_saidas |-> saidas,
         saldo |-> entradas - saidas]

\* TransacaoRepository.get_totais_por_tipo
get_totais_por_tipo(trs, usuario, mes, ano) ==
    LET filtro == { t \in trs : /\ t.ID_USUARIO = usuario
                                /\ t.DATA_TRANSACAO.mes = mes
                                /\ t.DATA_TRANSACAO.ano = ano }
        entradas == Soma({ t \in filtro : t.TIPO = "ENTRADA" }, ValorDe(trs))
        saidas == Soma({ t \in filtro : t.TIPO = "SAIDA" }, ValorDe(trs))
    IN  [total_entradas |-> entradas, total_saidas |-> saidas,
         saldo |-> entradas - saidas]

\* TransacaoRepository.find_all_by_usuario: the rows of the user that pass
\* the filters that are given ("" and None stand for a filter not given)
find_all_by_usuario(trs, usuario, data_inicio, data_fim, categoria_id, tipo) ==
    { t \in trs :
        /\ t.ID_USUARIO = usuario
        /\ data_inicio # None =>
              Ordinal(t.DATA_TRANSACAO) >= Ordinal(data_inicio)
        /\ data_fim # None => Ordinal(t.DATA_TRANSACAO) <= Ordinal(data_fim)
        /\ categoria_id # "" => t.ID_CATEGORIA = categoria_id
        /\ tipo # "" => t.TIPO = tipo }

\* ORDER BY DATA_TRANSACAO DESC: the rows of one day come in any order
OrdenadaPorDataDesc(lista) ==
    \A i, j \in 1..Len(lista) :
        i < j => Ordinal(lista[i].DATA_TRANSACAO)
                     >= Ordinal(lista[j].DATA_TRANSACAO)

\* get_gasto_por_categoria that sums the entries of every user
get_gasto_por_categoria_semusuario(trs, usuario, categoria, mes, ano) ==
    LET S == { t \in trs : /\ t.ID_CATEGORIA = categoria
                           /\ t.TIPO = "SAIDA"
                           /\ t.DATA_TRANSACAO.mes = mes
                           /\ t.DATA_TRANSACAO.ano = ano }
    IN  Soma(S, ValorDe(S))

\* get_gasto_por_categoria without the filter on TIPO
get_gasto_por_categoria_semtipo(trs, usuario, categoria, mes, ano) ==
    Soma({ t \in trs : /\ t.ID_USUARIO = usuario
                       /\ t.ID_CATEGORIA = categoria
                       /\ t.DATA_TRANSACAO.mes = mes
                       /\ t.DATA_TRANSACAO.ano = ano }, ValorDe(trs))

\* TransacaoRepository.get_gasto_por_categoria
get_gasto_por_categoria(trs, usuario, categoria, mes, ano) ==
    Soma({ t \in trs : /\ t.ID_USUARIO = usuario
                       /\ t.ID_CATEGORIA = categoria
                       /\ t.TIPO = "SAIDA"
                       /\ t.DATA_TRANSACAO.mes = mes
                       /\ t.DATA_TRANSACAO.ano = ano }, ValorDe(trs))

\* ORDER BY DATA_TRANSACAO ASC of a set of entries; entries of one day come
\* in the order of their identifiers (the statistics sum per month, so the
\* order within a day does not reach them)
Antes(a, b) ==
    \/ Ordinal(a.DATA_TRANSACAO) < Ordinal(b.DATA_TRANSACAO)
    \/ /\ Ordinal(a.DATA_TRANSACAO) = Ordinal(b.DATA_TRANSACAO)
       /\ a.ID_TRANSACAO < b.ID_TRANSACAO

RECURSIVE OrdenarPorData(_)
OrdenarPorData(S) ==
    IF S = {} THEN <<>>
    ELSE LET m == CHOOSE x \in S : \A y \in S \ {x} : Antes(x, y)
         IN  <<m>> \o OrdenarPorData(S \ {m})

\* timedelta(days=meses_anteriores * 30)
DiasPorMes == 30

\* TransacaoRepository.get_historico_para_ia: the entries dated after
\* now - 180 days.  DATA_TRANSACAO is a date and data_limite carries the time
\* of day of the call, so the day exactly 180 days back is outside the window.
get_historico_para_ia(trs, agr, usuario, meses_anteriores) ==
    OrdenarPorData({ t \in trs :
        /\ t.ID_USUARIO = usuario
        /\ Ordinal(t.DATA_TRANSACAO) >
              Ordinal(agr) - meses_anteriores * DiasPorMes })

\* OrcamentoRepository.find_all_by_mes_ano
find_all_by_mes_ano(orcs, usuario, mes, ano) ==
    { o \in orcs : /\ o.ID_USUARIO = usuario
                   /\ o.MES_REFERENCIA = mes
                   /\ o.ANO_REFERENCIA = ano }

\* find_all_ativos without the filter on the user
find_all_ativos_semusuario(orcs, agr, usuario) ==
    { o \in orcs : /\ o.MES_REFERENCIA = agr.mes
                   /\ o.ANO_REFERENCIA = agr.ano }

\* OrcamentoRepository.find_all_ativos
find_all_ativos(orcs, agr, usuario) ==
    find_all_by_mes_ano(orcs, usuario, agr.mes, agr.ano)

\* CategoriaRepository.find_by_id
find_by_id(categoria_id) ==
    IF \E c \in Categorias : c.ID_CATEGORIA = categoria_id
    THEN CHOOSE c \in Categorias : c.ID_CATEGORIA = categoria_id
    ELSE None

(***************************************************************************)
(* IAAnalysisService                                                       *)
(***************************************************************************)

RECURSIVE SomaSeq(_)
SomaSeq(q) == IF q = <<>> THEN 0 ELSE Head(q) + SomaSeq(Tail(q))

\* the dict gastos_por_mes, in insertion order, after the loop over historico
RECURSIVE AgruparPorMes(_, _)
AgruparPorMes(h, acc) ==
    IF h = <<>> THEN acc
    ELSE LET transacao == Head(h)
             mes_key == <<transacao.DATA_TRANSACAO.ano,
                          transacao.DATA_TRANSACAO.mes>>
         IN  IF transacao.TIPO # "SAIDA" THEN AgruparPorMes(Tail(h), acc)
             ELSE IF \E i \in 1..Len(acc) : acc[i].mes_key = mes_key
             THEN LET i == CHOOSE j \in 1..Len(acc) : acc[j].mes_key = mes_key
                  IN  AgruparPorMes(Tail(h),
                          [acc EXCEPT ![i].total = @ + transacao.VALOR])
             ELSE AgruparPorMes(Tail(h),
                      Append(acc, [mes_key |-> mes_key,
                                   total |-> transacao.VALOR]))

\* list(gastos_por_mes.values())
ValoresPorMes(h) ==
    LET g == AgruparPorMes(h, <<>>) IN [i \in 1..Len(g) |-> g[i].total]

\* lines 127-133: the products by Decimal("1.1") and Decimal("0.9") are exact
\* (the sums have far fewer than Prec digits), so are the comparisons
DetectarTendencia(valores) ==
    IF Len(valores) >= 3
    THEN LET ultimos_3 == SubSeq(valores, Len(valores) - 2, Len(valores))
         IN  IF ultimos_3[3] * 10 > ultimos_3[1] * 11 THEN "crescente"
             ELSE IF ultimos_3[3] * 10 < ultimos_3[1] * 9 THEN "decrescente"
             ELSE "estavel"
    ELSE "estavel"

\* IAAnalysisService._calcular_estatisticas_historicas.  With more than one
\* monthly sum line 122 evaluates variancia ** 0.5, a Decimal to the power of
\* a float, which raises TypeError.
_calcular_estatisticas_historicas(h) ==
    IF h = <<>>
    THEN [media_gastos_mes |-> DecZero, desvio_padrao |-> DecZero,
          tendencia |-> "estavel", total_historico |-> 0, exc |-> ""]
    ELSE LET valores == ValoresPorMes(h)
             media == IF valores # <<>>
                      THEN DecDiv(SomaSeq(valores), -2, Len(valores))
                      ELSE DecZero
         IN  IF Len(valores) > 1
             THEN [exc |-> "TypeError"]
             ELSE [media_gastos_mes |-> media, desvio_padrao |-> DecZero,
                   tendencia |-> DetectarTendencia(valores),
                   total_historico |-> SomaSeq(valores), exc |-> ""]

\* line 168
dias_no_mes(agr) == IF agr.mes < 12 THEN DiasDoMes(agr.ano, agr.mes) ELSE 31

\* ProjecaoFinal whose elapsed days are the days before today: on the first
\* day of a month it falls back to the historical mean
ProjecaoFinal_diasanteriores(gasto_atual_mes, agr, estat) ==
    LET dias_decorridos == agr.dia - 1
        projecao_base ==
            IF dias_decorridos > 0
            THEN DecMul(DecDiv(gasto_atual_mes, -2, dias_decorridos),
                        dias_no_mes(agr), 0)
            ELSE estat.media_gastos_mes
    IN  IF estat.tendencia = "crescente" THEN DecMul(projecao_base, 11, -1)
        ELSE IF estat.tendencia = "decrescente"
        THEN DecMul(projecao_base, 9, -1)
        ELSE projecao_base

\* ProjecaoFinal that takes the spend so far as the base, not the daily mean
\* times the days of the month
ProjecaoFinal_semritmo(gasto_atual_mes, agr, estat) ==
    LET projecao_base == DecOfInt(gasto_atual_mes, -2)
    IN  IF estat.tendencia = "crescente" THEN DecMul(projecao_base, 11, -1)
        ELSE IF estat.tendencia = "decrescente"
        THEN DecMul(projecao_base, 9, -1)
        ELSE projecao_base

\* lines 170-184: the projection before it is quantized
ProjecaoFinal(gasto_atual_mes, agr, estat) ==
    LET dias_decorridos == agr.dia
        projecao_base ==
            IF dias_decorridos > 0
            THEN DecMul(DecDiv(gasto_atual_mes, -2, dias_decorridos),
                        dias_no_mes(agr), 0)
            ELSE estat.media_gastos_mes
    IN  IF estat.tendencia = "crescente" THEN DecMul(projecao_base, 11, -1)
        ELSE IF estat.tendencia = "decrescente"
        THEN DecMul(projecao_base, 9, -1)
        ELSE projecao_base

\* _projetar_gasto_mes projecting the balance of the month: the inflow is
\* taken off the projected outflow
_projetar_gasto_mes_saldo(trs, agr, usuario, estat) ==
    LET totais_mes == get_totais_por_tipo(trs, usuario, agr.mes, agr.ano)
    IN  DecQuantizeCents(ProjecaoFinal(totais_mes.total_saidas, agr, estat))
            - totais_mes.total_entradas

\* IAAnalysisService._projetar_gasto_mes, in cents
_projetar_gasto_mes(trs, agr, usuario, estat) ==
    LET totais_mes == get_totais_por_tipo(trs, usuario, agr.mes, agr.ano)
    IN  DecQuantizeCents(ProjecaoFinal(totais_mes.total_saidas, agr, estat))

\* ClassificarRisco with the third and fourth rules in the other order
ClassificarRisco_ordem(orcs, gasto_atual, agr, valor, estat) ==
    LET limite_total == Soma(orcs, LimiteDe(orcs))
        percentual_projetado ==
            IF limite_total > 0
            THEN DecMul(DecDiv(valor, 0, limite_total), 100, 0) ELSE DecZero
        percentual_atual ==
            IF limite_total > 0
            THEN DecMul(DecDiv(gasto_atual, 0, limite_total), 100, 0)
            ELSE DecZero
    IN  IF DecGT(percentual_projetado, 90) THEN "VERMELHO"
        ELSE IF DecGT(percentual_projetado, 70) THEN "AMARELO"
        ELSE IF DecGT(percentual_atual, 70) /\ agr.dia < 20 THEN "VERMELHO"
        ELSE IF estat.tendencia = "crescente" /\ DecGT(percentual_atual, 50)
        THEN "AMARELO"
        ELSE "VERDE"

\* ClassificarRisco with the first threshold at 95 instead of 90
ClassificarRisco_limiar(orcs, gasto_atual, agr, valor, estat) ==
    LET limite_total == Soma(orcs, LimiteDe(orcs))
        percentual_projetado ==
            IF limite_total > 0
            THEN DecMul(DecDiv(valor, 0, limite_total), 100, 0) ELSE DecZero
        percentual_atual ==
            IF limite_total > 0
            THEN DecMul(DecDiv(gasto_atual, 0, limite_total), 100, 0)
            ELSE DecZero
    IN  IF DecGT(percentual_projetado, 95) THEN "VERMELHO"
        ELSE IF DecGT(percentual_atual, 70) /\ agr.dia < 20 THEN "VERMELHO"
        ELSE IF DecGT(percentual_projetado, 70) THEN "AMARELO"
        ELSE IF estat.tendencia = "crescente" /\ DecGT(percentual_atual, 50)
        THEN "AMARELO"
        ELSE "VERDE"

\* ClassificarRisco with day 20 still counted as early in the month
ClassificarRisco_dia(orcs, gasto_atual, agr, valor, estat) ==
    LET limite_total == Soma(orcs, LimiteDe(orcs))
        percentual_projetado ==
            IF limite_total > 0
            THEN DecMul(DecDiv(valor, 0, limite_total), 100, 0) ELSE DecZero
        percentual_atual ==
            IF limite_total > 0
            THEN DecMul(DecDiv(gasto_atual, 0, limite_total), 100, 0)
            ELSE DecZero
    IN  IF DecGT(percentual_projetado, 90) THEN "VERMELHO"
        ELSE IF DecGT(percentual_atual, 70) /\ agr.dia <= 20 THEN "VERMELHO"
        ELSE IF DecGT(percentual_projetado, 70) THEN "AMARELO"
        ELSE IF estat.tendencia = "crescente" /\ DecGT(percentual_atual, 50)
        THEN "AMARELO"
        ELSE "VERDE"

\* ClassificarRisco without the rule on the rising trend
ClassificarRisco_semtendencia(orcs, gasto_atual, agr, valor, estat) ==
    LET limite_total == Soma(orcs, LimiteDe(orcs))
        percentual_projetado ==
            IF limite_total > 0
            THEN DecMul(DecDiv(valor, 0, limite_total), 100, 0) ELSE DecZero
        percentual_atual ==
            IF limite_total > 0
            THEN DecMul(DecDiv(gasto_atual, 0, limite_total), 100, 0)
            ELSE DecZero
    IN  IF DecGT(percentual_projetado, 90) THEN "VERMELHO"
        ELSE IF DecGT(percentual_atual, 70) /\ agr.dia < 20 THEN "VERMELHO"
        ELSE IF DecGT(percentual_projetado, 70) THEN "AMARELO"
        ELSE "VERDE"

\* ClassificarRisco that takes the budget for used up, both ratios 100, when
\* the summed limit is not positive
ClassificarRisco_semlimite(orcs, gasto_atual, agr, valor, estat) ==
    LET limite_total == Soma(orcs, LimiteDe(orcs))
        percentual_projetado ==
            IF limite_total > 0
            THEN DecMul(DecDiv(valor, 0, limite_total), 100, 0)
            ELSE DecOfInt(100, 0)
        percentual_atual ==
            IF limite_total > 0
            THEN DecMul(DecDiv(gasto_atual, 0, limite_total), 100, 0)
            ELSE DecOfInt(100, 0)
    IN  IF DecGT(percentual_projetado, 90) THEN "VERMELHO"
        ELSE IF DecGT(percentual_atual, 70) /\ agr.dia < 20 THEN "VERMELHO"
        ELSE IF DecGT(percentual_projetado, 70) THEN "AMARELO"
        ELSE IF estat.tendencia = "crescente" /\ DecGT(percentual_atual, 50)
        THEN "AMARELO"
        ELSE "VERDE"

\* lines 213-243 of _calcular_indice_risco: the rules, once the budgets orcs
\* (not empty) and the spend gasto_atual are read
ClassificarRisco(orcs, gasto_atual, agr, valor, estat) ==
    LET limite_total == Soma(orcs, LimiteDe(orcs))
        percentual_projetado ==
            IF limite_total > 0
            THEN DecMul(DecDiv(valor, 0, limite_total), 100, 0) ELSE DecZero
        percentual_atual ==
            IF limite_total > 0
            THEN DecMul(DecDiv(gasto_atual, 0, limite_total), 100, 0)
            ELSE DecZero
    IN  IF DecGT(percentual_projetado, 90) THEN "VERMELHO"
        ELSE IF DecGT(percentual_atual, 70) /\ agr.dia < 20 THEN "VERMELHO"
        ELSE IF DecGT(percentual_projetado, 70) THEN "AMARELO"
        ELSE IF estat.tendencia = "crescente" /\ DecGT(percentual_atual, 50)
        THEN "AMARELO"
        ELSE "VERDE"

\* IAAnalysisService._calcular_indice_risco when both of its reads see the
\* same stored data
_calcular_indice_risco(orcs, trs, agr, usuario, valor, estat) ==
    LET lidos == find_all_ativos(orcs, agr, usuario)
    IN  IF lidos = {} THEN "AMARELO"
        ELSE ClassificarRisco(lidos,
                 get_totais_por_tipo(trs, usuario, agr.mes, agr.ano).total_saidas,
                 agr, valor, estat)

\* the characters of the decimal digits
Algarismos == <<"0", "1", "2", "3", "4", "5", "6", "7", "8", "9">>

RECURSIVE Formatar2f(_)
\* f"{valor_projetado:.2f}" of a Decimal of valor cents: the sign, the digits
\* of the integer part (at least one), the point and two fractional digits,
\* one character each
Formatar2f(valor) ==
    IF valor < 0 THEN <<"-">> \o Formatar2f(0 - valor)
    ELSE LET inteiro == IntDigits(valor \div 100)
             centavos == valor % 100
         IN  (IF inteiro = <<>> THEN <<"0">>
              ELSE [i \in 1..Len(inteiro) |-> Algarismos[inteiro[i] + 1]])
             \o <<".", Algarismos[(centavos \div 10) + 1],
                  Algarismos[(centavos % 10) + 1]>>

\* lines 257-273: the dict mensagens, each message a sequence of pieces of
\* text (written without diacritics and emoji)
mensagens(valor) ==
    [VERDE |->
        << <<"Otimo trabalho! Seu gasto projetado e de R$ ">>
               \o Formatar2f(valor) \o <<". Voce esta no controle!">>,
           <<"Parabens! Suas financas estao saudaveis. Continue assim!">>,
           <<"Voce esta indo muito bem! Gasto projetado: R$ ">>
               \o Formatar2f(valor) \o <<". Mantenha o ritmo!">> >>,
     AMARELO |->
        << <<"Atencao: Gasto projetado de R$ ">> \o Formatar2f(valor)
               \o <<". Considere revisar gastos nao essenciais.">>,
           <<"Seus gastos estao aumentando. Que tal revisar algumas categorias?">>,
           <<"Voce esta no limite! Gasto projetado: R$ ">>
               \o Formatar2f(valor)
               \o <<". Planeje os proximos dias com cuidado.">> >>,
     VERMELHO |->
        << <<"Alerta! Gasto projetado de R$ ">> \o Formatar2f(valor)
               \o <<" pode exceder seu orcamento. Priorize o essencial!">>,
           <<"Cuidado! Voce esta proximo do limite. Evite gastos nao essenciais nos proximos dias.">>,
           <<"Seus gastos estao acima do planejado. Vamos ajustar juntos? Revise suas prioridades.">> >>]

\* line 280: the clause appended for a rising trend
AlertaDeTendencia == <<" Seus gastos tem aumentado nos ultimos meses.">>

\* _gerar_mensagem_insight that appends the clause for every tier
_gerar_mensagem_insight_todos(indice, valor, estat) ==
    LET mensagens_disponiveis == mensagens(valor)[indice]
    IN  IF estat.tendencia = "crescente"
        THEN mensagens_disponiveis[1] \o AlertaDeTendencia
        ELSE mensagens_disponiveis[1]

\* IAAnalysisService._gerar_mensagem_insight (valor is in cents)
_gerar_mensagem_insight(indice, valor, estat) ==
    LET mensagens_disponiveis == mensagens(valor)[indice]
    IN  IF estat.tendencia = "crescente" /\ indice # "VERDE"
        THEN mensagens_disponiveis[1] \o AlertaDeTendencia
        ELSE mensagens_disponiveis[1]

(***************************************************************************)
(* OrcamentoService                                                        *)
(***************************************************************************)

\* StatusDoOrcamento with the remaining balance floored at zero
StatusDoOrcamento_saldominimo(trs, orcamento, usuario, mes, ano) ==
    LET gasto_atual == get_gasto_por_categoria(trs, usuario,
                           orcamento.ID_CATEGORIA, mes, ano)
        percentual_uso ==
            IF orcamento.LIMITE_TOTAL > 0
            THEN DecMul(DecDiv(gasto_atual, 0, orcamento.LIMITE_TOTAL), 100, 0)
            ELSE DecZero
        saldo_disponivel ==
            IF gasto_atual > orcamento.LIMITE_TOTAL THEN 0
            ELSE orcamento.LIMITE_TOTAL - gasto_atual
        categoria == find_by_id(orcamento.ID_CATEGORIA)
    IN  [orcamento |-> orcamento,
         categoria_nome |-> IF categoria # None THEN categoria.NOME
                            ELSE "Desconhecida",
         gasto_atual |-> gasto_atual,
         percentual_uso |-> percentual_uso,
         saldo_disponivel |-> saldo_disponivel]

\* lines 113-135 of get_orcamentos_com_status: the view of one budget
StatusDoOrcamento(trs, orcamento, usuario, mes, ano) ==
    LET gasto_atual == get_gasto_por_categoria(trs, usuario,
                           orcamento.ID_CATEGORIA, mes, ano)
        percentual_uso ==
            IF orcamento.LIMITE_TOTAL > 0
            THEN DecMul(DecDiv(gasto_atual, 0, orcamento.LIMITE_TOTAL), 100, 0)
            ELSE DecZero
        saldo_disponivel == orcamento.LIMITE_TOTAL - gasto_atual
        categoria == find_by_id(orcamento.ID_CATEGORIA)
    IN  [orcamento |-> orcamento,
         categoria_nome |-> IF categoria # None THEN categoria.NOME
                            ELSE "Desconhecida",
         gasto_atual |-> gasto_atual,
         percentual_uso |-> percentual_uso,
         saldo_disponivel |-> saldo_disponivel]

\* the orders in which a query without ORDER BY can return the rows S
Enumeracoes(S) ==
    { q \in [1..Cardinality(S) -> S] :
        \A i, j \in 1..Cardinality(S) : i # j => q[i] # q[j] }

\* OrcamentoService.get_orcamentos_com_status; mes = 0 or ano = 0 stands for
\* an argument that is None
get_orcamentos_com_status(trs, lista, agr, usuario, mes, ano) ==
    LET m == IF mes = 0 THEN agr.mes ELSE mes
        a == IF ano = 0 THEN agr.ano ELSE ano
    IN  [i \in 1..Len(lista) |-> StatusDoOrcamento(trs, lista[i], usuario, m, a)]

(***************************************************************************)
(* Requests                                                                *)
(***************************************************************************)

\* gerar_previsao, lines 47-53: now and the history are read
GerarHistorico(r) ==
    /\ pc[r] = "gerar"
    /\ agora' = [agora EXCEPT ![r] = [gerar |-> now, risco |-> None]]
    /\ historico' = [historico EXCEPT ![r] =
           get_historico_para_ia(transacoes, now, usuario_id[r], 6)]
    /\ pc' = [pc EXCEPT ![r] = "estatisticas"]
    /\ UNCHANGED <<store, now, usuario_id, pedido, estatisticas, valor_projetado,
                   orcamentos_lidos, indice_risco, mensagem_insight, resultado>>

\* gerar_previsao, line 56; an exception ends the request
CalcularEstatisticas(r) ==
    /\ pc[r] = "estatisticas"
    /\ LET e == _calcular_estatisticas_historicas(historico[r])
       IN  /\ estatisticas' = [estatisticas EXCEPT ![r] = e]
           /\ IF e.exc # ""
              THEN /\ pc' = [pc EXCEPT ![r] = "erro"]
                   /\ resultado' = [resultado EXCEPT ![r] = [exc |-> e.exc]]
              ELSE /\ pc' = [pc EXCEPT ![r] = "projetar"]
                   /\ UNCHANGED resultado
    /\ UNCHANGED <<store, now, usuario_id, pedido, agora, historico, valor_projetado,
                   orcamentos_lidos, indice_risco, mensagem_insight>>

\* gerar_previsao, lines 59-62
ProjetarGastoMes(r) ==
    /\ pc[r] = "projetar"
    /\ valor_projetado' = [valor_projetado EXCEPT ![r] =
           _projetar_gasto_mes(transacoes, now, usuario_id[r], estatisticas[r])]
    /\ pc' = [pc EXCEPT ![r] = "risco"]
    /\ UNCHANGED <<store, now, usuario_id, pedido, agora, historico, estatisticas,
                   orcamentos_lidos, indice_risco, mensagem_insight, resultado>>

\* RiscoOrcamentos without the early return for an empty list of budgets
RiscoOrcamentos_semretorno(r) ==
    /\ pc[r] = "risco"
    /\ agora' = [agora EXCEPT ![r].risco = now]
    /\ orcamentos_lidos' = [orcamentos_lidos EXCEPT ![r] =
           find_all_ativos(orcamentos, now, usuario_id[r])]
    /\ pc' = [pc EXCEPT ![r] = "risco_totais"]
    /\ UNCHANGED <<store, now, usuario_id, pedido, historico, estatisticas,
                   valor_projetado, indice_risco, mensagem_insight, resultado>>

\* _calcular_indice_risco, lines 204-211: now and the budgets are read
RiscoOrcamentos(r) ==
    /\ pc[r] = "risco"
    /\ agora' = [agora EXCEPT ![r].risco = now]
    /\ LET lidos == find_all_ativos(orcamentos, now, usuario_id[r])
       IN  /\ orcamentos_lidos' = [orcamentos_lidos EXCEPT ![r] = lidos]
           /\ IF lidos = {}
              THEN /\ indice_risco' = [indice_risco EXCEPT ![r] = "AMARELO"]
                   /\ pc' = [pc EXCEPT ![r] = "mensagem"]
              ELSE /\ pc' = [pc EXCEPT ![r] = "risco_totais"]
                   /\ UNCHANGED indice_risco
    /\ UNCHANGED <<store, now, usuario_id, pedido, historico, estatisticas,
                   valor_projetado, mensagem_insight, resultado>>

\* _calcular_indice_risco, lines 213-243: the spend is read, the rules applied
RiscoTotais(r) ==
    /\ pc[r] = "risco_totais"
    /\ LET totais == get_totais_por_tipo(transacoes, usuario_id[r],
                         agora[r].risco.mes, agora[r].risco.ano)
       IN  indice_risco' = [indice_risco EXCEPT ![r] =
               ClassificarRisco(orcamentos_lidos[r], totais.total_saidas,
                                agora[r].risco, valor_projetado[r],
                                estatisticas[r])]
    /\ pc' = [pc EXCEPT ![r] = "mensagem"]
    /\ UNCHANGED <<store, now, usuario_id, pedido, agora, historico, estatisticas,
                   valor_projetado, orcamentos_lidos, mensagem_insight,
                   resultado>>

\* gerar_previsao, lines 72-76
GerarMensagem(r) ==
    /\ pc[r] = "mensagem"
    /\ mensagem_insight' = [mensagem_insight EXCEPT ![r] =
           _gerar_mensagem_insight(indice_risco[r], valor_projetado[r],
                                   estatisticas[r])]
    /\ pc' = [pc EXCEPT ![r] = "salvar"]
    /\ UNCHANGED <<store, now, usuario_id, pedido, agora, historico, estatisticas,
                   valor_projetado, orcamentos_lidos, indice_risco, resultado>>

\* the position of a new row in the order of DATA_GERACAO
ProximoInstante ==
    IF previsoes = {} THEN 1
    ELSE 1 + (CHOOSE n \in { p.DATA_GERACAO.instante : p \in previsoes } :
                \A p \in previsoes : p.DATA_GERACAO.instante <= n)

\* SalvarPrevisao that overwrites the prediction the user has instead of
\* inserting a new row
SalvarPrevisao_atualiza(r) ==
    /\ pc[r] = "salvar"
    /\ IF \E p \in previsoes : p.ID_USUARIO = usuario_id[r]
       THEN LET antiga == CHOOSE p \in previsoes : p.ID_USUARIO = usuario_id[r]
                previsao == [antiga EXCEPT
                                !.VALOR_PROJETADO = valor_projetado[r],
                                !.INDICE_RISCO = indice_risco[r],
                                !.MENSAGEM_INSIGHT = mensagem_insight[r],
                                !.MES_ALVO = agora[r].gerar.mes,
                                !.ANO_ALVO = agora[r].gerar.ano]
            IN  /\ previsoes' = (previsoes \ {antiga}) \cup {previsao}
                /\ resultado' = [resultado EXCEPT ![r] = previsao]
       ELSE LET previsao ==
                    [ID_PREVISAO |-> 1,
                     ID_USUARIO |-> usuario_id[r],
                     DATA_GERACAO |-> [data |-> now, instante |-> 1],
                     VALOR_PROJETADO |-> valor_projetado[r],
                     INDICE_RISCO |-> indice_risco[r],
                     MENSAGEM_INSIGHT |-> mensagem_insight[r],
                     MES_ALVO |-> agora[r].gerar.mes,
                     ANO_ALVO |-> agora[r].gerar.ano]
            IN  /\ previsoes' = previsoes \cup {previsao}
                /\ resultado' = [resultado EXCEPT ![r] = previsao]
    /\ pc' = [pc EXCEPT ![r] = "fim"]
    /\ UNCHANGED <<transacoes, orcamentos, now, usuario_id, pedido, agora,
                   historico, estatisticas, valor_projetado, orcamentos_lidos,
                   indice_risco, mensagem_insight>>

\* SalvarPrevisao that stores nothing when the user has a prediction
SalvarPrevisao_semduplicar(r) ==
    /\ pc[r] = "salvar"
    /\ IF \E p \in previsoes : p.ID_USUARIO = usuario_id[r]
       THEN /\ resultado' = [resultado EXCEPT ![r] =
                   CHOOSE p \in previsoes : p.ID_USUARIO = usuario_id[r]]
            /\ UNCHANGED previsoes
       ELSE LET previsao ==
                    [ID_PREVISAO |-> 1,
                     ID_USUARIO |-> usuario_id[r],
                     DATA_GERACAO |-> [data |-> now, instante |-> 1],
                     VALOR_PROJETADO |-> valor_projetado[r],
                     INDICE_RISCO |-> indice_risco[r],
                     MENSAGEM_INSIGHT |-> mensagem_insight[r],
                     MES_ALVO |-> agora[r].gerar.mes,
                     ANO_ALVO |-> agora[r].gerar.ano]
            IN  /\ previsoes' = previsoes \cup {previsao}
                /\ resultado' = [resultado EXCEPT ![r] = previsao]
    /\ pc' = [pc EXCEPT ![r] = "fim"]
    /\ UNCHANGED <<transacoes, orcamentos, now, usuario_id, pedido, agora,
                   historico, estatisticas, valor_projetado, orcamentos_lidos,
                   indice_risco, mensagem_insight>>

\* PrevisaoIARepository.create, called at lines 79-88 of gerar_previsao
SalvarPrevisao(r) ==
    /\ pc[r] = "salvar"
    /\ Cardinality(previsoes) < MaxPrevisoes
    /\ \E id \in 1..MaxPrevisoes :
          /\ \A p \in previsoes : p.ID_PREVISAO # id
          /\ \A menor \in 1..(id - 1) : \E p \in previsoes : p.ID_PREVISAO = menor
          /\ LET previsao ==
                    [ID_PREVISAO |-> id,
                     ID_USUARIO |-> usuario_id[r],
                     DATA_GERACAO |-> [data |-> now,
                                       instante |-> ProximoInstante],
                     VALOR_PROJETADO |-> valor_projetado[r],
                     INDICE_RISCO |-> indice_risco[r],
                     MENSAGEM_INSIGHT |-> mensagem_insight[r],
                     MES_ALVO |-> agora[r].gerar.mes,
                     ANO_ALVO |-> agora[r].gerar.ano]
             IN  /\ previsoes' = previsoes \cup {previsao}
                 /\ resultado' = [resultado EXCEPT ![r] = previsao]
    /\ pc' = [pc EXCEPT ![r] = "fim"]
    /\ UNCHANGED <<transacoes, orcamentos, now, usuario_id, pedido, agora, historico,
                   estatisticas, valor_projetado, orcamentos_lidos,
                   indice_risco, mensagem_insight>>

\* delete_antigas: dias_retencao=90
dias_retencao == 90

\* PrevisaoIARepository.delete_antigas: the predictions of the user generated
\* before now - dias_retencao are deleted.  DATA_GERACAO and now carry a time
\* of day: a prediction generated on the day exactly dias_retencao days back
\* is deleted when its time of day is the earlier one (noLimite)
delete_antigas(prevs, agr, usuario, noLimite) ==
    { p \in prevs :
        ~ /\ p.ID_USUARIO = usuario
          /\ \/ Ordinal(p.DATA_GERACAO.data) < Ordinal(agr) - dias_retencao
             \/ /\ noLimite
                /\ Ordinal(p.DATA_GERACAO.data) = Ordinal(agr) - dias_retencao }

\* one call of delete_antigas: the bulk DELETE and its commit
DeleteAntigas(usuario) ==
    /\ \E noLimite \in BOOLEAN :
          previsoes' = delete_antigas(previsoes, now, usuario, noLimite)
    /\ UNCHANGED <<transacoes, orcamentos, now, pc, usuario_id, pedido, locals>>

\* the months and years a budget listing is asked for (0: not given)
MesesConsulta == {0, 1, 2}
AnosConsulta == {0, 2026}

\* list_budgets -> OrcamentoService.get_orcamentos_com_status
GetOrcamentosComStatus(r) ==
    /\ pc[r] = "status"
    /\ \E mes \in MesesConsulta, ano \in AnosConsulta :
          LET m == IF mes = 0 THEN now.mes ELSE mes
              a == IF ano = 0 THEN now.ano ELSE ano
          IN  \E lista \in Enumeracoes(
                      find_all_by_mes_ano(orcamentos, usuario_id[r], m, a)) :
                 resultado' = [resultado EXCEPT ![r] =
                     [mes |-> m, ano |-> a,
                      views |-> get_orcamentos_com_status(transacoes, lista,
                                    now, usuario_id[r], mes, ano)]]
    /\ pc' = [pc EXCEPT ![r] = "fim"]
    /\ UNCHANGED <<store, now, usuario_id, pedido, agora, historico, estatisticas,
                   valor_projetado, orcamentos_lidos, indice_risco,
                   mensagem_insight>>

(***************************************************************************)
(* Specifications                                                          *)
(***************************************************************************)

Transacao(id, usuario, categoria, valor, data, tipo) ==
    [ID_TRANSACAO |-> id, ID_USUARIO |-> usuario, ID_CATEGORIA |-> categoria,
     VALOR |-> valor, DATA_TRANSACAO |-> data, TIPO |-> tipo]

Orcamento(id, usuario, categoria, mes, ano, limite) ==
    [ID_ORCAMENTO |-> id, ID_USUARIO |-> usuario, ID_CATEGORIA |-> categoria,
     MES_REFERENCIA |-> mes, ANO_REFERENCIA |-> ano, LIMITE_TOTAL |-> limite]

SubconjuntosAte(S, n) == { X \in SUBSET S : Cardinality(X) <= n }

Tendencias == {"crescente", "decrescente", "estavel"}

\* statistics with a given trend, as an argument of the functions that take them
EstatisticasCom(tendencia) ==
    [media_gastos_mes |-> DecZero, desvio_padrao |-> DecZero,
     tendencia |-> tendencia, total_historico |-> 0, exc |-> ""]

SemLocais == [r \in Reqs |-> None]

(***************************************************************************)
(* SpecRisco: _calcular_indice_risco applied to every combination of       *)
(* budgets, spend, day of the month, projected amount and trend            *)
(***************************************************************************)

OrcamentosRisco ==
    { Orcamento(1, "u1", "c1", 1, 2026, 100000),
      Orcamento(2, "u1", "c2", 1, 2026, 50000),
      Orcamento(3, "u2", "c1", 1, 2026, 1000),
      Orcamento(4, "u1", "c1", 2, 2026, 100000) }

TransacoesRisco ==
    { Transacao(1, "u1", "c1", 75000, Data(2026, 1, 1), "SAIDA"),
      Transacao(2, "u1", "c2", 51000, Data(2026, 1, 1), "SAIDA"),
      Transacao(3, "u1", "c1", 90000, Data(2026, 1, 1), "ENTRADA"),
      Transacao(4, "u2", "c1", 75000, Data(2026, 1, 1), "SAIDA") }

ValoresRisco == {0, 70000, 70001, 90000, 90001}

InitRisco ==
    /\ now \in { Data(2026, 1, dia) : dia \in 1..31 }
    /\ orcamentos \in SubconjuntosAte(OrcamentosRisco, MaxOrcamentos)
    /\ transacoes \in SubconjuntosAte(TransacoesRisco, MaxTransacoes)
    /\ previsoes = {}
    /\ pc = [r \in Reqs |-> IF r = "r1" THEN "risco" ELSE "ocioso"]
    /\ usuario_id = [r \in Reqs |-> "u1"]
    /\ pedido = SemLocais
    /\ agora = [SemLocais EXCEPT !["r1"] = [gerar |-> now, risco |-> None]]
    /\ historico = SemLocais
    /\ \E tendencia \in Tendencias :
          /\ estatisticas =
                 [SemLocais EXCEPT !["r1"] = EstatisticasCom(tendencia)]
          /\ \E valor \in ValoresRisco \cup
                     { _projetar_gasto_mes(transacoes, now, "u1",
                                           EstatisticasCom(tendencia)) } :
                valor_projetado = [SemLocais EXCEPT !["r1"] = valor]
    /\ orcamentos_lidos = SemLocais
    /\ indice_risco = SemLocais
    /\ mensagem_insight = SemLocais
    /\ resultado = SemLocais

NextRisco == RiscoOrcamentos("r1") \/ RiscoTotais("r1")

SpecRisco == InitRisco /\ [][NextRisco]_vars

\* what the claims about the classifier speak of, in cents and exact integer
\* arithmetic: the budgets of u1 for the current month, the sum of their
\* limits, the outflow of u1 in the current month, the projected amount
OrcamentosAtivosU1 ==
    { o \in orcamentos : /\ o.ID_USUARIO = "u1"
                         /\ o.MES_REFERENCIA = now.mes
                         /\ o.ANO_REFERENCIA = now.ano }
LimiteTotalU1 == Soma(OrcamentosAtivosU1, LimiteDe(OrcamentosAtivosU1))
SaidasDoMesU1 ==
    LET S == { t \in transacoes : /\ t.ID_USUARIO = "u1"
                                  /\ t.TIPO = "SAIDA"
                                  /\ t.DATA_TRANSACAO.mes = now.mes
                                  /\ t.DATA_TRANSACAO.ano = now.ano }
    IN  Soma(S, ValorDe(S))
\* projectedPct > k and currentPct > k
ProjetadoAcimaDe(k) ==
    LimiteTotalU1 > 0 /\ 100 * valor_projetado["r1"] > k * LimiteTotalU1
AtualAcimaDe(k) ==
    LimiteTotalU1 > 0 /\ 100 * SaidasDoMesU1 > k * LimiteTotalU1
RiscoCalculado == pc["r1"] = "mensagem"

Regra1 == OrcamentosAtivosU1 = {}
Regra2 == ProjetadoAcimaDe(90)
Regra3 == AtualAcimaDe(70) /\ now.dia < 20
Regra4 == ProjetadoAcimaDe(70)
Regra5 == estatisticas["r1"].tendencia = "crescente" /\ AtualAcimaDe(50)

\* C1: the tier returned by _calcular_indice_risco is the one of the first
\* rule that matches, in the order: no budgets -> AMARELO; projectedPct > 90
\* -> VERMELHO; currentPct > 70 and day < 20 -> VERMELHO; projectedPct > 70
\* -> AMARELO; rising trend and currentPct > 50 -> AMARELO; otherwise VERDE.
C1_CadeiaOrdenada ==
    RiscoCalculado =>
        /\ Regra1 => indice_risco["r1"] = "AMARELO"
        /\ ~Regra1 /\ Regra2 => indice_risco["r1"] = "VERMELHO"
        /\ ~Regra1 /\ ~Regra2 /\ Regra3 => indice_risco["r1"] = "VERMELHO"
        /\ ~Regra1 /\ ~Regra2 /\ ~Regra3 /\ Regra4
              => indice_risco["r1"] = "AMARELO"
        /\ ~Regra1 /\ ~Regra2 /\ ~Regra3 /\ ~Regra4 /\ Regra5
              => indice_risco["r1"] = "AMARELO"
        /\ ~Regra1 /\ ~Regra2 /\ ~Regra3 /\ ~Regra4 /\ ~Regra5
              => indice_risco["r1"] = "VERDE"

\* the third rule decides although the fourth matches too
C1_Witness ==
    /\ RiscoCalculado
    /\ ~Regra1 /\ ~Regra2 /\ Regra3 /\ Regra4
    /\ indice_risco["r1"] = "VERMELHO"

\* C2: whenever projectedPct > 90 the classifier returns VERMELHO, whatever
\* the day of the month, the trend and the current spend.
C2_ProjetadoAcimaDe90 ==
    RiscoCalculado /\ ~Regra1 /\ ProjetadoAcimaDe(90)
        => indice_risco["r1"] = "VERMELHO"

\* projectedPct > 90 late in the month, with nothing spent and a falling trend
C2_Witness ==
    /\ RiscoCalculado
    /\ ~Regra1 /\ ProjetadoAcimaDe(90)
    /\ now.dia >= 20
    /\ SaidasDoMesU1 = 0
    /\ estatisticas["r1"].tendencia = "decrescente"
    /\ indice_risco["r1"] = "VERMELHO"

\* C3: without a budget for the current period the classifier returns AMARELO
\* at once: it does not go on to read the spend and to compute the ratios.
C3_SemOrcamento ==
    [][pc["r1"] = "risco" /\ Regra1
          => /\ pc'["r1"] = "mensagem"
             /\ indice_risco'["r1"] = "AMARELO"]_vars

\* no budget for the current period, a large projected amount, spend, a late
\* day: AMARELO
C3_Witness ==
    /\ RiscoCalculado
    /\ Regra1
    /\ orcamentos # {}
    /\ valor_projetado["r1"] = 90001
    /\ SaidasDoMesU1 > 0
    /\ indice_risco["r1"] = "AMARELO"

\* the amount the projector returns for the stored spend, the day and the
\* trend of the state
ValorDoProjetor ==
    _projetar_gasto_mes(transacoes, now, "u1", estatisticas["r1"])

Limite1000Gasto750 ==
    RiscoCalculado /\ LimiteTotalU1 = 100000 /\ SaidasDoMesU1 = 75000

\* C4 as the spec states it: with a total limit of 1000 and a spend of 750
\* the tier is VERMELHO on day 19, and on day 20 the same spend gives a tier
\* other than the one of day 19.
C4_TierDifereNoDia20 ==
    Limite1000Gasto750 /\ valor_projetado["r1"] = ValorDoProjetor
        => /\ now.dia = 19 => indice_risco["r1"] = "VERMELHO"
           /\ now.dia = 20 => indice_risco["r1"] # "VERMELHO"

\* C4, amended: with a total limit of 1000 and a spend of 750 the tier is
\* VERMELHO on day 19; on day 20 rule 3 no longer fires and the tier differs
\* from the one of day 19 exactly when projectedPct <= 90; the amount the
\* projector computes from that spend has projectedPct > 90, so with it the
\* tier is VERMELHO on day 19 and on day 20.
C4_FronteiraDoDia20 ==
    Limite1000Gasto750
        => /\ now.dia = 19 => indice_risco["r1"] = "VERMELHO"
           /\ now.dia = 20 =>
                 (indice_risco["r1"] # "VERMELHO" <=> ~ProjetadoAcimaDe(90))
           /\ now.dia \in {19, 20} /\ valor_projetado["r1"] = ValorDoProjetor
                 => /\ ProjetadoAcimaDe(90)
                    /\ indice_risco["r1"] = "VERMELHO"

\* day 20, limit 1000, spend 750 and the projector's own amount: VERMELHO
C4_Witness ==
    /\ Limite1000Gasto750
    /\ now.dia = 20
    /\ valor_projetado["r1"] = ValorDoProjetor
    /\ indice_risco["r1"] = "VERMELHO"

(***************************************************************************)
(* Decimal results, stated without the division                            *)
(***************************************************************************)

Zeros(k) == [i \in 1..k |-> 0]

\* a <= b for digit sequences without leading zeros
DigitsLE(a, b) ==
    \/ Len(a) < Len(b)
    \/ /\ Len(a) = Len(b)
       /\ \/ a = b
          \/ \E i \in 1..Len(a) : /\ a[i] < b[i]
                                  /\ \A j \in 1..(i - 1) : a[j] = b[j]

\* x is n / d to Prec significant digits: |x - n/d| is at most half a unit of
\* the Prec-th significant digit of x (n >= 0 and d > 0 integers)
EhQuociente(x, n, d) ==
    IF x.c = <<>> THEN n = 0
    ELSE LET c28 == x.c \o Zeros(Prec - Len(x.c))
             e28 == x.e - (Prec - Len(x.c))
             A == MulDigits(c28, 2 * d, 0)
             B == IntDigits(2 * n) \o Zeros(0 - e28)
         IN  /\ e28 <= 0
             /\ n > 0
             /\ DigitsLE(A, MulDigits(B, 1, d))
             /\ DigitsLE(B, MulDigits(A, 1, d))

(***************************************************************************)
(* SpecEstat: the history is read and the statistics are computed          *)
(***************************************************************************)

TransacoesEstat ==
    { Transacao(1, "u1", "c1", 10000, Data(2026, 1, 10), "SAIDA"),
      Transacao(2, "u1", "c1", 10000, Data(2026, 2, 10), "SAIDA"),
      Transacao(3, "u1", "c2", 11500, Data(2026, 3, 5), "SAIDA"),
      Transacao(4, "u1", "c1", 8900, Data(2026, 3, 6), "SAIDA"),
      Transacao(5, "u1", "c1", 10000, Data(2026, 3, 7), "SAIDA"),
      Transacao(6, "u1", "c1", 11000, Data(2026, 3, 8), "SAIDA"),
      Transacao(7, "u1", "c1", 9000, Data(2026, 3, 9), "SAIDA"),
      Transacao(8, "u1", "c1", 1500, Data(2026, 1, 20), "SAIDA"),
      Transacao(9, "u1", "c1", 50000, Data(2026, 2, 1), "ENTRADA"),
      Transacao(10, "u2", "c3", 99900, Data(2026, 3, 1), "SAIDA"),
      Transacao(11, "u1", "c1", 20000, Data(2025, 6, 1), "SAIDA") }

InitEstat ==
    /\ now = Data(2026, 3, 15)
    /\ orcamentos = {}
    /\ transacoes \in SubconjuntosAte(TransacoesEstat, MaxTransacoes)
    /\ previsoes = {}
    /\ pc = [r \in Reqs |-> IF r = "r1" THEN "gerar" ELSE "ocioso"]
    /\ usuario_id = [r \in Reqs |-> "u1"]
    /\ pedido = SemLocais
    /\ agora = SemLocais
    /\ historico = SemLocais
    /\ estatisticas = SemLocais
    /\ valor_projetado = SemLocais
    /\ orcamentos_lidos = SemLocais
    /\ indice_risco = SemLocais
    /\ mensagem_insight = SemLocais
    /\ resultado = SemLocais

NextEstat == GerarHistorico("r1") \/ CalcularEstatisticas("r1")

SpecEstat == InitEstat /\ [][NextEstat]_vars

\* the outflows of u1 in the trailing window, and the months they fall in
SaidasDaJanelaU1 ==
    { t \in transacoes : /\ t.ID_USUARIO = "u1"
                         /\ t.TIPO = "SAIDA"
                         /\ Ordinal(now) - Ordinal(t.DATA_TRANSACAO) < 180 }
IndiceDoMes(d) == d.ano * 12 + d.mes
MesesDaJanelaU1 == { IndiceDoMes(t.DATA_TRANSACAO) : t \in SaidasDaJanelaU1 }
SomaDoMesU1(k) ==
    LET S == { t \in SaidasDaJanelaU1 : IndiceDoMes(t.DATA_TRANSACAO) = k }
    IN  Soma(S, ValorDe(S))
\* the month with exactly n later months in the window
MesDoFim(n) ==
    CHOOSE k \in MesesDaJanelaU1 :
        Cardinality({ j \in MesesDaJanelaU1 : j > k }) = n
TendenciaEsperada ==
    IF Cardinality(MesesDaJanelaU1) >= 3
    THEN LET ultimo == SomaDoMesU1(MesDoFim(0))
             primeiro == SomaDoMesU1(MesDoFim(2))
         IN  IF 10 * ultimo > 11 * primeiro THEN "crescente"
             ELSE IF 10 * ultimo < 9 * primeiro THEN "decrescente"
             ELSE "estavel"
    ELSE "estavel"
EstatisticasCalculadas == pc["r1"] \in {"projetar", "erro"}

\* C5: the trend is rising iff there are at least 3 monthly sums and the last
\* is more than 1.1 times the third from last, else falling iff the last is
\* less than 0.9 times the third from last, else stable; stable with fewer
\* than 3 monthly sums.
C5_Tendencia ==
    EstatisticasCalculadas
        => /\ estatisticas["r1"].exc = ""
           /\ estatisticas["r1"].tendencia = TendenciaEsperada

\* C6: the statistics calculator never fails; without outflows in the history
\* it returns zeros and a stable trend, otherwise the mean and the sum of the
\* monthly outflow sums.
C6_NuncaFalha ==
    EstatisticasCalculadas
        => /\ estatisticas["r1"].exc = ""
           /\ estatisticas["r1"].total_historico =
                  Soma(SaidasDaJanelaU1, ValorDe(SaidasDaJanelaU1))
           /\ IF SaidasDaJanelaU1 = {}
              THEN /\ estatisticas["r1"].media_gastos_mes = DecZero
                   /\ estatisticas["r1"].desvio_padrao = DecZero
                   /\ estatisticas["r1"].tendencia = "estavel"
              ELSE LET m == estatisticas["r1"].media_gastos_mes
                   IN  EhQuociente([c |-> m.c, e |-> m.e + 2],
                           Soma(SaidasDaJanelaU1, ValorDe(SaidasDaJanelaU1)),
                           Cardinality(MesesDaJanelaU1))

(***************************************************************************)
(* SpecProj: _projetar_gasto_mes applied to every day of months of 28, 29, *)
(* 30 and 31 days and of December, every trend and a range of spends       *)
(***************************************************************************)

DatasProj ==
    { d \in { Data(par[1], par[2], dia) :
                par \in {<<2026, 1>>, <<2026, 2>>, <<2026, 4>>, <<2026, 12>>,
                         <<2028, 2>>},
                dia \in 1..31 } : DataValida(d) }

TransacoesProj(agr) ==
    { Transacao(1, "u1", "c1", 15, Data(agr.ano, agr.mes, 1), "SAIDA"),
      Transacao(2, "u1", "c1", 5, Data(agr.ano, agr.mes, 1), "SAIDA"),
      Transacao(3, "u1", "c2", 25, Data(agr.ano, agr.mes, 1), "SAIDA"),
      Transacao(4, "u1", "c2", 75000, Data(agr.ano, agr.mes, 1), "SAIDA"),
      Transacao(5, "u1", "c1", 100000, Data(agr.ano, agr.mes, 1), "ENTRADA"),
      Transacao(6, "u2", "c1", 33333, Data(agr.ano, agr.mes, 1), "SAIDA"),
      Transacao(7, "u1", "c1", 44444, Data(2025, 11, 30), "SAIDA") }

InitProj ==
    /\ now \in DatasProj
    /\ orcamentos = {}
    /\ transacoes \in SubconjuntosAte(TransacoesProj(now), MaxTransacoes)
    /\ previsoes = {}
    /\ pc = [r \in Reqs |-> IF r = "r1" THEN "projetar" ELSE "ocioso"]
    /\ usuario_id = [r \in Reqs |-> "u1"]
    /\ pedido = SemLocais
    /\ agora = [SemLocais EXCEPT !["r1"] = [gerar |-> now, risco |-> None]]
    /\ historico = SemLocais
    /\ \E tendencia \in Tendencias :
          estatisticas = [SemLocais EXCEPT !["r1"] = EstatisticasCom(tendencia)]
    /\ valor_projetado = SemLocais
    /\ orcamentos_lidos = SemLocais
    /\ indice_risco = SemLocais
    /\ mensagem_insight = SemLocais
    /\ resultado = SemLocais

NextProj == ProjetarGastoMes("r1")

SpecProj == InitProj /\ [][NextProj]_vars

ProjecaoCalculada == pc["r1"] = "risco"
\* the number of days of the month of now, from the calendar
DiasDoMesAtual ==
    CHOOSE n \in 28..31 :
        /\ DataValida(Data(now.ano, now.mes, n))
        /\ ~DataValida(Data(now.ano, now.mes, n + 1))
\* the multiplier of the trend, in tenths
DecimosDaTendencia ==
    CASE estatisticas["r1"].tendencia = "crescente" -> 11
      [] estatisticas["r1"].tendencia = "decrescente" -> 9
      [] estatisticas["r1"].tendencia = "estavel" -> 10
\* the product (actualTotal / elapsedDays * totalDaysInMonth) * multiplier in
\* cents is the fraction NumeradorExato / DenominadorExato
NumeradorExato == SaidasDoMesU1 * DiasDoMesAtual * DecimosDaTendencia
DenominadorExato == 10 * now.dia
ProdutoNoMeio == (2 * NumeradorExato) % (2 * DenominadorExato) = DenominadorExato
\* actualTotal / elapsedDays has a finite decimal expansion
DivisaoExata == (SaidasDoMesU1 * 10000) % now.dia = 0

\* C7 as the spec states it: the projected amount is the product rounded to
\* 2 fractional digits half-up, a product halfway between two cents going to
\* the upper cent.
C7_MeiaParaCima ==
    ProjecaoCalculada =>
        valor_projetado["r1"] =
            (2 * NumeradorExato + DenominadorExato) \div (2 * DenominadorExato)

\* C7, amended: the projected amount is the product (actualTotal /
\* elapsedDays * totalDaysInMonth) * multiplier rounded to a nearest cent, at
\* most half a cent away from it; a product exactly halfway between two cents
\* goes to the even cent (round-half-even) whenever the division by
\* elapsedDays is exact in decimal.
C7_MeiaParaPar ==
    ProjecaoCalculada =>
        LET erro == DenominadorExato * valor_projetado["r1"] - NumeradorExato
        IN  /\ 2 * erro <= DenominadorExato
            /\ 2 * erro >= 0 - DenominadorExato
            /\ ProdutoNoMeio /\ DivisaoExata => valor_projetado["r1"] % 2 = 0

\* spend 0.15 on day 1 of a month of 31 days with a falling trend: the
\* product is 4.185 and the projected amount 4.18
C7_Witness ==
    /\ ProjecaoCalculada
    /\ SaidasDoMesU1 = 15 /\ now.dia = 1 /\ DiasDoMesAtual = 31
    /\ estatisticas["r1"].tendencia = "decrescente"
    /\ ProdutoNoMeio
    /\ valor_projetado["r1"] = 418

\* C8: the projected amount is >= 0, and projecting changes no ledger entry,
\* budget or prediction.
C8_ProjecaoPura ==
    /\ [](ProjecaoCalculada => valor_projetado["r1"] >= 0)
    /\ [][pc["r1"] = "projetar" => UNCHANGED store]_vars

\* a positive amount projected from stored entries, inflow among them
C8_Witness ==
    /\ ProjecaoCalculada
    /\ \E t \in transacoes : t.ID_USUARIO = "u1" /\ t.TIPO = "ENTRADA"
    /\ SaidasDoMesU1 > 0
    /\ valor_projetado["r1"] > 0

(***************************************************************************)
(* SpecGerar: gerar_previsao from its first line to the stored prediction, *)
(* on every day of 2026 and of February 2028                               *)
(***************************************************************************)

DatasGerar ==
    { d \in { Data(par[1], par[2], dia) :
                par \in ({2026} \X (1..12)) \cup {<<2028, 2>>},
                dia \in 1..31 } : DataValida(d) }

TransacoesGerar ==
    { Transacao(1, "u1", "c1", 12000, Data(2025, 7, 5), "SAIDA"),
      Transacao(2, "u1", "c1", 5000, Data(2026, 3, 10), "SAIDA"),
      Transacao(3, "u1", "c2", 7000, Data(2026, 4, 10), "SAIDA"),
      Transacao(4, "u2", "c1", 9000, Data(2026, 3, 10), "SAIDA"),
      Transacao(5, "u1", "c1", 30000, Data(2026, 5, 5), "ENTRADA") }

OrcamentosGerar ==
    { Orcamento(1, "u2", "c1", 3, 2026, 10000),
      Orcamento(2, "u1", "c1", 3, 2026, 10000) }

InitGerar ==
    /\ now \in DatasGerar
    /\ orcamentos \in SubconjuntosAte(OrcamentosGerar, MaxOrcamentos)
    /\ transacoes \in SubconjuntosAte(TransacoesGerar, MaxTransacoes)
    /\ previsoes = {}
    /\ pc = [r \in Reqs |-> IF r = "r1" THEN "gerar" ELSE "ocioso"]
    /\ usuario_id = [r \in Reqs |-> "u1"]
    /\ pedido = SemLocais
    /\ agora = SemLocais
    /\ historico = SemLocais
    /\ estatisticas = SemLocais
    /\ valor_projetado = SemLocais
    /\ orcamentos_lidos = SemLocais
    /\ indice_risco = SemLocais
    /\ mensagem_insight = SemLocais
    /\ resultado = SemLocais

NextGerar ==
    \/ GerarHistorico("r1")
    \/ CalcularEstatisticas("r1")
    \/ ProjetarGastoMes("r1")
    \/ RiscoOrcamentos("r1")
    \/ RiscoTotais("r1")
    \/ GerarMensagem("r1")
    \/ SalvarPrevisao("r1")

SpecGerar == InitGerar /\ [][NextGerar]_vars

\* u1 has no budget and no ledger entry dated within the 180 days before now
\* or later
SemOrcamentoSemHistorico ==
    /\ \A o \in orcamentos : o.ID_USUARIO # "u1"
    /\ \A t \in transacoes :
          t.ID_USUARIO = "u1" =>
              Ordinal(t.DATA_TRANSACAO) + 180 <= Ordinal(now)

\* C9: for a user with no budgets and no ledger entries in the trailing
\* window, gerar_previsao computes all-zero statistics with stable trend and
\* persists a prediction whose projected amount is 0 and whose tier is
\* AMARELO, on every day of every month; it never fails on the way.
C9_SemOrcamentoSemHistorico ==
    SemOrcamentoSemHistorico =>
        /\ pc["r1"] \notin {"erro", "risco_totais"}
        /\ pc["r1"] \in {"projetar", "risco", "mensagem", "salvar", "fim"} =>
              /\ estatisticas["r1"].media_gastos_mes.c = <<>>
              /\ estatisticas["r1"].desvio_padrao.c = <<>>
              /\ estatisticas["r1"].total_historico = 0
              /\ estatisticas["r1"].tendencia = "estavel"
        /\ pc["r1"] = "fim" =>
              /\ resultado["r1"] \in previsoes
              /\ resultado["r1"].ID_USUARIO = "u1"
              /\ resultado["r1"].VALOR_PROJETADO = 0
              /\ resultado["r1"].INDICE_RISCO = "AMARELO"
              /\ resultado["r1"].MES_ALVO = now.mes
              /\ resultado["r1"].ANO_ALVO = now.ano

\* the prediction is stored while the stores hold an old entry of u1 and the
\* entries and budgets of another user
C9_Witness ==
    /\ SemOrcamentoSemHistorico
    /\ pc["r1"] = "fim"
    /\ \E t \in transacoes : t.ID_USUARIO = "u1"
    /\ \E t \in transacoes : t.ID_USUARIO = "u2"
    /\ \E o \in orcamentos : o.ID_USUARIO = "u2" /\ o.MES_REFERENCIA = now.mes
    /\ \E p \in previsoes : p.VALOR_PROJETADO = 0 /\ p.INDICE_RISCO = "AMARELO"

(***************************************************************************)
(* SpecStatus: the budget listing with its status, for budgets below, at   *)
(* and above their limit                                                   *)
(***************************************************************************)

OrcamentosStatus ==
    { Orcamento(1, "u1", "c1", 1, 2026, 300),
      Orcamento(2, "u1", "c2", 1, 2026, 100000),
      Orcamento(3, "u1", "c1", 2, 2026, 700),
      Orcamento(4, "u2", "c1", 1, 2026, 300) }

TransacoesStatus ==
    { Transacao(1, "u1", "c1", 100, Data(2026, 1, 5), "SAIDA"),
      Transacao(2, "u1", "c1", 301, Data(2026, 1, 31), "SAIDA"),
      Transacao(3, "u1", "c2", 33333, Data(2026, 1, 1), "SAIDA"),
      Transacao(4, "u1", "c1", 5000, Data(2026, 1, 7), "ENTRADA"),
      Transacao(5, "u2", "c1", 200, Data(2026, 1, 8), "SAIDA"),
      Transacao(6, "u1", "c1", 700, Data(2026, 2, 9), "SAIDA") }

InitStatus ==
    /\ now \in {Data(2026, 1, 15), Data(2026, 2, 15)}
    /\ orcamentos \in SubconjuntosAte(OrcamentosStatus, MaxOrcamentos)
    /\ transacoes \in SubconjuntosAte(TransacoesStatus, MaxTransacoes)
    /\ previsoes = {}
    /\ pc = [r \in Reqs |-> IF r = "r1" THEN "status" ELSE "ocioso"]
    /\ usuario_id = [r \in Reqs |-> "u1"]
    /\ pedido = SemLocais
    /\ agora = SemLocais
    /\ historico = SemLocais
    /\ estatisticas = SemLocais
    /\ valor_projetado = SemLocais
    /\ orcamentos_lidos = SemLocais
    /\ indice_risco = SemLocais
    /\ mensagem_insight = SemLocais
    /\ resultado = SemLocais

NextStatus == GetOrcamentosComStatus("r1")

SpecStatus == InitStatus /\ [][NextStatus]_vars

\* the outflow of u1 in a category and month, summed over the ledger
GastoNoLedger(categoria, mes, ano) ==
    LET S == { t \in transacoes : /\ t.ID_USUARIO = "u1"
                                  /\ t.TIPO = "SAIDA"
                                  /\ t.ID_CATEGORIA = categoria
                                  /\ t.DATA_TRANSACAO.mes = mes
                                  /\ t.DATA_TRANSACAO.ano = ano }
    IN  Soma(S, [t \in S |-> t.VALOR])

\* C10: for every budget with limit L > 0 and actual spend S >= 0 returned by
\* get_orcamentos_com_status, percentUsed is S / L * 100 as the decimal
\* arithmetic evaluates it (the quotient to 28 significant digits) and
\* remainingBalance is L - S exactly; remainingBalance is negative exactly
\* when S > L and is never clamped to 0.
C10_PercentualESaldo ==
    pc["r1"] = "fim" =>
        \A i \in 1..Len(resultado["r1"].views) :
            LET v == resultado["r1"].views[i]
                L == v.orcamento.LIMITE_TOTAL
                S == GastoNoLedger(v.orcamento.ID_CATEGORIA,
                                   resultado["r1"].mes, resultado["r1"].ano)
            IN  L > 0 /\ S >= 0 =>
                    /\ v.gasto_atual = S
                    /\ Len(v.percentual_uso.c) <= Prec
                    /\ EhQuociente(v.percentual_uso, 100 * S, L)
                    /\ v.saldo_disponivel = L - S
                    /\ v.saldo_disponivel < 0 <=> S > L

\* two budgets listed, one overspent (limit 3.00, spend 4.01) with a
\* percentage that has no finite expansion
C10_Witness ==
    /\ pc["r1"] = "fim"
    /\ Len(resultado["r1"].views) = 2
    /\ \E i \in 1..2 :
          LET v == resultado["r1"].views[i]
          IN  /\ v.orcamento.LIMITE_TOTAL = 300
              /\ v.gasto_atual = 401
              /\ v.saldo_disponivel = 0 - 101
              /\ Len(v.percentual_uso.c) = Prec

\* the budgets of u1 whose period is the period of the listing
OrcamentosDoPeriodo ==
    { o \in orcamentos : /\ o.ID_USUARIO = "u1"
                         /\ o.MES_REFERENCIA = resultado["r1"].mes
                         /\ o.ANO_REFERENCIA = resultado["r1"].ano }

\* C11: get_orcamentos_com_status(user, month, year) returns exactly one view
\* for each budget of that user whose period is (month, year) and no view for
\* any other budget; each view's actual spend is the sum of that user's
\* outflow entries in the budget's category dated in that month and year.
C11_UmaVisaoPorOrcamento ==
    pc["r1"] = "fim" =>
        LET views == resultado["r1"].views
        IN  /\ Len(views) = Cardinality(OrcamentosDoPeriodo)
            /\ { views[i].orcamento : i \in 1..Len(views) } = OrcamentosDoPeriodo
            /\ \A i \in 1..Len(views) :
                  LET o == views[i].orcamento
                      gastos == { t \in transacoes :
                                    /\ t.ID_USUARIO = o.ID_USUARIO
                                    /\ t.ID_CATEGORIA = o.ID_CATEGORIA
                                    /\ t.TIPO = "SAIDA"
                                    /\ t.DATA_TRANSACAO.mes = o.MES_REFERENCIA
                                    /\ t.DATA_TRANSACAO.ano = o.ANO_REFERENCIA }
                  IN  views[i].gasto_atual = Soma(gastos, [t \in gastos |-> t.VALOR])

\* one view with spend 1.00 while the ledger also holds an inflow in the same
\* category and another user's outflow, and a budget of another period or
\* user is stored
C11_Witness ==
    /\ pc["r1"] = "fim"
    /\ Len(resultado["r1"].views) = 1
    /\ resultado["r1"].views[1].gasto_atual = 100
    /\ \E t \in transacoes : t.TIPO = "ENTRADA" /\ t.ID_CATEGORIA = "c1"
    /\ \E t \in transacoes : t.ID_USUARIO = "u2" /\ t.ID_CATEGORIA = "c1"
    /\ Cardinality(orcamentos) = 2

\* the position of a category display name in alphabetical order
OrdemDoNome(nome) ==
    CASE nome = "Aluguel" -> 1
      [] nome = "Desconhecida" -> 2
      [] nome = "Lazer" -> 3
      [] nome = "Mercado" -> 4

\* C12: the list of views is sorted by category display name and, among
\* equal names, by budget identifier, whatever order the store returns the
\* budgets in.
C12_Ordenado ==
    pc["r1"] = "fim" =>
        LET views == resultado["r1"].views
        IN  \A i, j \in 1..Len(views) :
                i < j =>
                    \/ OrdemDoNome(views[i].categoria_nome)
                           < OrdemDoNome(views[j].categoria_nome)
                    \/ /\ views[i].categoria_nome = views[j].categoria_nome
                       /\ views[i].orcamento.ID_ORCAMENTO
                              < views[j].orcamento.ID_ORCAMENTO

(***************************************************************************)
(* Requests of the API: predictions                                        *)
(***************************************************************************)

\* find_mais_recente_por_usuario with the order of DATA_GERACAO reversed
find_mais_recente_por_usuario_asc(prevs, usuario) ==
    LET doUsuario == { p \in prevs : p.ID_USUARIO = usuario }
    IN  IF doUsuario = {} THEN None
        ELSE CHOOSE p \in doUsuario :
                 \A q \in doUsuario :
                     p.DATA_GERACAO.instante <= q.DATA_GERACAO.instante

\* PrevisaoIARepository.find_mais_recente_por_usuario:
\* ORDER BY DATA_GERACAO DESC, first()
find_mais_recente_por_usuario(prevs, usuario) ==
    LET doUsuario == { p \in prevs : p.ID_USUARIO = usuario }
    IN  IF doUsuario = {} THEN None
        ELSE CHOOSE p \in doUsuario :
                 \A q \in doUsuario :
                     q.DATA_GERACAO.instante <= p.DATA_GERACAO.instante

\* the locals of request r are dropped
SemLocaisDe(f, r) == [f EXCEPT ![r] = None]

\* GetUltimaPrevisao that never uses the stored prediction
GetUltimaPrevisao_semcache(r) ==
    /\ pc[r] = "ocioso"
    /\ pedido' = [pedido EXCEPT ![r] = [tipo |-> "get_ultima_previsao"]]
    /\ pc' = [pc EXCEPT ![r] = "gerar"]
    /\ UNCHANGED <<store, now, usuario_id, locals>>

\* IAAnalysisService.get_ultima_previsao, lines 291-296: the latest
\* prediction is returned, or gerar_previsao is entered
GetUltimaPrevisao(r) ==
    /\ pc[r] = "ocioso"
    /\ pedido' = [pedido EXCEPT ![r] = [tipo |-> "get_ultima_previsao"]]
    /\ LET previsao == find_mais_recente_por_usuario(previsoes, usuario_id[r])
       IN  IF previsao # None
           THEN /\ resultado' = [resultado EXCEPT ![r] = previsao]
                /\ pc' = [pc EXCEPT ![r] = "fim"]
           ELSE /\ pc' = [pc EXCEPT ![r] = "gerar"]
                /\ UNCHANGED resultado
    /\ UNCHANGED <<store, now, usuario_id, agora, historico, estatisticas,
                   valor_projetado, orcamentos_lidos, indice_risco,
                   mensagem_insight>>

\* refresh_prediction: gerar_previsao is entered whatever is stored
RefreshPrediction(r) ==
    /\ pc[r] = "ocioso"
    /\ pedido' = [pedido EXCEPT ![r] = [tipo |-> "refresh_prediction"]]
    /\ pc' = [pc EXCEPT ![r] = "gerar"]
    /\ UNCHANGED <<store, now, usuario_id, locals>>

\* the response is sent (or the exception propagates) and the request ends
Retornar(r) ==
    /\ pc[r] \in {"fim", "erro"}
    /\ pc' = [pc EXCEPT ![r] = "ocioso"]
    /\ pedido' = SemLocaisDe(pedido, r)
    /\ agora' = SemLocaisDe(agora, r)
    /\ historico' = SemLocaisDe(historico, r)
    /\ estatisticas' = SemLocaisDe(estatisticas, r)
    /\ valor_projetado' = SemLocaisDe(valor_projetado, r)
    /\ orcamentos_lidos' = SemLocaisDe(orcamentos_lidos, r)
    /\ indice_risco' = SemLocaisDe(indice_risco, r)
    /\ mensagem_insight' = SemLocaisDe(mensagem_insight, r)
    /\ resultado' = SemLocaisDe(resultado, r)
    /\ UNCHANGED <<store, now, usuario_id>>

(***************************************************************************)
(* Requests of the API: ledger entries                                     *)
(***************************************************************************)

\* CategoriaRepository.exists_for_usuario
exists_for_usuario(categoria_id, usuario) ==
    \E c \in Categorias :
        /\ c.ID_CATEGORIA = categoria_id
        /\ (c.ID_USUARIO = usuario \/ c.ID_USUARIO = NULL)

\* the identifiers a request in flight has loaded a row under
IdsEmPedidos(tipos) ==
    { pedido[r].id : r \in { q \in Reqs : /\ pedido[q] # None
                                          /\ pedido[q].tipo \in tipos } }

\* generate_uuid: an identifier no stored row has and no request holds
NovoId(usados, max) ==
    CHOOSE id \in 1..max :
        /\ id \notin usados
        /\ \A menor \in 1..(id - 1) : menor \in usados

TransacoesEmUso ==
    { t.ID_TRANSACAO : t \in transacoes } \cup IdsEmPedidos({"delete_transacao"})

\* TransacaoService.create_transacao
CriarTransacao(r, categoria_id, valor, data_transacao, tipo) ==
    /\ pc[r] = "ocioso"
    /\ pedido' = [pedido EXCEPT ![r] = [tipo |-> "create_transacao"]]
    /\ IF ~exists_for_usuario(categoria_id, usuario_id[r])
       THEN /\ resultado' = [resultado EXCEPT ![r] = [status |-> 400]]
            /\ UNCHANGED transacoes
       ELSE /\ Cardinality(TransacoesEmUso) < MaxTransacoes
            /\ LET transacao ==
                      Transacao(NovoId(TransacoesEmUso, MaxTransacoes),
                                usuario_id[r], categoria_id, valor,
                                data_transacao, tipo)
               IN  /\ transacoes' = transacoes \cup {transacao}
                   /\ resultado' = [resultado EXCEPT ![r] =
                          [status |-> 201, transacao |-> transacao]]
    /\ pc' = [pc EXCEPT ![r] = "fim"]
    /\ UNCHANGED <<orcamentos, previsoes, now, usuario_id, agora, historico,
                   estatisticas, valor_projetado, orcamentos_lidos,
                   indice_risco, mensagem_insight>>

\* BuscarTransacao that looks the row up by identifier alone
BuscarTransacao_semdono(r, transacao_id) ==
    /\ pc[r] = "ocioso"
    /\ pedido' = [pedido EXCEPT ![r] =
           [tipo |-> "delete_transacao", id |-> transacao_id]]
    /\ IF \E t \in transacoes : t.ID_TRANSACAO = transacao_id
       THEN /\ pc' = [pc EXCEPT ![r] = "deletar_transacao"]
            /\ UNCHANGED resultado
       ELSE /\ resultado' = [resultado EXCEPT ![r] = [status |-> 404]]
            /\ pc' = [pc EXCEPT ![r] = "fim"]
    /\ UNCHANGED <<store, now, usuario_id, agora, historico, estatisticas,
                   valor_projetado, orcamentos_lidos, indice_risco,
                   mensagem_insight>>

\* TransacaoRepository.delete, line 63: the row is looked up by identifier
\* and user; without it delete_transacao raises 404
BuscarTransacao(r, transacao_id) ==
    /\ pc[r] = "ocioso"
    /\ pedido' = [pedido EXCEPT ![r] =
           [tipo |-> "delete_transacao", id |-> transacao_id]]
    /\ IF \E t \in transacoes : /\ t.ID_TRANSACAO = transacao_id
                                /\ t.ID_USUARIO = usuario_id[r]
       THEN /\ pc' = [pc EXCEPT ![r] = "deletar_transacao"]
            /\ UNCHANGED resultado
       ELSE /\ resultado' = [resultado EXCEPT ![r] = [status |-> 404]]
            /\ pc' = [pc EXCEPT ![r] = "fim"]
    /\ UNCHANGED <<store, now, usuario_id, agora, historico, estatisticas,
                   valor_projetado, orcamentos_lidos, indice_risco,
                   mensagem_insight>>

\* TransacaoRepository.delete, lines 64-67: DELETE by primary key and commit;
\* a row another request has deleted meanwhile is no error
DeletarTransacao(r) ==
    /\ pc[r] = "deletar_transacao"
    /\ transacoes' = { t \in transacoes : t.ID_TRANSACAO # pedido[r].id }
    /\ resultado' = [resultado EXCEPT ![r] = [status |-> 200]]
    /\ pc' = [pc EXCEPT ![r] = "fim"]
    /\ UNCHANGED <<orcamentos, previsoes, now, usuario_id, pedido, agora,
                   historico, estatisticas, valor_projetado, orcamentos_lidos,
                   indice_risco, mensagem_insight>>

\* list_transactions -> TransacaoService.get_transacoes_with_filters: the
\* rows that pass the filters, latest first, with the name of the category
\* of each, and the totals of the rows listed
ListarTransacoes(r, data_inicio, data_fim, categoria_id, tipo) ==
    /\ pc[r] = "ocioso"
    /\ pedido' = [pedido EXCEPT ![r] =
           [tipo |-> "list_transactions", data_inicio |-> data_inicio,
            data_fim |-> data_fim, categoria_id |-> categoria_id,
            tipo_filtro |-> tipo]]
    /\ LET S == find_all_by_usuario(transacoes, usuario_id[r], data_inicio,
                                     data_fim, categoria_id, tipo)
           total_entradas == Soma({ t \in S : t.TIPO = "ENTRADA" }, ValorDe(S))
           total_saidas == Soma({ t \in S : t.TIPO = "SAIDA" }, ValorDe(S))
       IN  \E lista \in { q \in Enumeracoes(S) : OrdenadaPorDataDesc(q) } :
              resultado' = [resultado EXCEPT ![r] =
                  [status |-> 200,
                   transacoes |->
                       [i \in 1..Len(lista) |->
                           [transacao |-> lista[i],
                            categoria_nome |->
                                IF find_by_id(lista[i].ID_CATEGORIA) # None
                                THEN find_by_id(lista[i].ID_CATEGORIA).NOME
                                ELSE "Desconhecida"]],
                   total_entradas |-> total_entradas,
                   total_saidas |-> total_saidas,
                   saldo |-> total_entradas - total_saidas]]
    /\ pc' = [pc EXCEPT ![r] = "fim"]
    /\ UNCHANGED <<store, now, usuario_id, agora, historico, estatisticas,
                   valor_projetado, orcamentos_lidos, indice_risco,
                   mensagem_insight>>

(***************************************************************************)
(* Requests of the API: budgets                                            *)
(***************************************************************************)

\* OrcamentoRepository.exists_for_categoria_mes_ano
exists_for_categoria_mes_ano(orcs, usuario, categoria_id, mes, ano) ==
    \E o \in orcs : /\ o.ID_USUARIO = usuario
                    /\ o.ID_CATEGORIA = categoria_id
                    /\ o.MES_REFERENCIA = mes
                    /\ o.ANO_REFERENCIA = ano

\* OrcamentoRepository.find_by_id
orcamento_find_by_id(orcs, orcamento_id, usuario) ==
    IF \E o \in orcs : o.ID_ORCAMENTO = orcamento_id /\ o.ID_USUARIO = usuario
    THEN CHOOSE o \in orcs :
             o.ID_ORCAMENTO = orcamento_id /\ o.ID_USUARIO = usuario
    ELSE None

OrcamentosEmUso ==
    { o.ID_ORCAMENTO : o \in orcamentos }
        \cup IdsEmPedidos({"delete_orcamento", "update_limite"})

\* ValidarOrcamento without the validation of the category
ValidarOrcamento_semcategoria(r, categoria_id, mes_referencia, ano_referencia, limite_total) ==
    /\ pc[r] = "ocioso"
    /\ pedido' = [pedido EXCEPT ![r] =
           [tipo |-> "create_orcamento", categoria_id |-> categoria_id,
            mes_referencia |-> mes_referencia,
            ano_referencia |-> ano_referencia, limite_total |-> limite_total]]
    /\ IF exists_for_categoria_mes_ano(orcamentos, usuario_id[r],
              categoria_id, mes_referencia, ano_referencia)
       THEN /\ resultado' = [resultado EXCEPT ![r] =
                   [status |-> 400, detail |-> "duplicado"]]
            /\ pc' = [pc EXCEPT ![r] = "fim"]
       ELSE /\ pc' = [pc EXCEPT ![r] = "inserir_orcamento"]
            /\ UNCHANGED resultado
    /\ UNCHANGED <<store, now, usuario_id, agora, historico, estatisticas,
                   valor_projetado, orcamentos_lidos, indice_risco,
                   mensagem_insight>>

\* create_orcamento, lines 48-65: the category and the uniqueness are
\* validated; a failed validation raises HTTP 400
ValidarOrcamento(r, categoria_id, mes_referencia, ano_referencia, limite_total) ==
    /\ pc[r] = "ocioso"
    /\ pedido' = [pedido EXCEPT ![r] =
           [tipo |-> "create_orcamento", categoria_id |-> categoria_id,
            mes_referencia |-> mes_referencia,
            ano_referencia |-> ano_referencia, limite_total |-> limite_total]]
    /\ IF ~exists_for_usuario(categoria_id, usuario_id[r])
       THEN /\ resultado' = [resultado EXCEPT ![r] =
                   [status |-> 400, detail |-> "categoria"]]
            /\ pc' = [pc EXCEPT ![r] = "fim"]
       ELSE IF exists_for_categoria_mes_ano(orcamentos, usuario_id[r],
                   categoria_id, mes_referencia, ano_referencia)
       THEN /\ resultado' = [resultado EXCEPT ![r] =
                   [status |-> 400, detail |-> "duplicado"]]
            /\ pc' = [pc EXCEPT ![r] = "fim"]
       ELSE /\ pc' = [pc EXCEPT ![r] = "inserir_orcamento"]
            /\ UNCHANGED resultado
    /\ UNCHANGED <<store, now, usuario_id, agora, historico, estatisticas,
                   valor_projetado, orcamentos_lidos, indice_risco,
                   mensagem_insight>>

\* InserirOrcamento without the unique constraint of the table
InserirOrcamento_semconstraint(r) ==
    /\ pc[r] = "inserir_orcamento"
    /\ Cardinality(OrcamentosEmUso) < MaxOrcamentos
    /\ LET orcamento ==
              Orcamento(NovoId(OrcamentosEmUso, MaxOrcamentos),
                        usuario_id[r], pedido[r].categoria_id,
                        pedido[r].mes_referencia,
                        pedido[r].ano_referencia, pedido[r].limite_total)
       IN  /\ orcamentos' = orcamentos \cup {orcamento}
           /\ resultado' = [resultado EXCEPT ![r] =
                  [status |-> 201, orcamento |-> orcamento]]
    /\ pc' = [pc EXCEPT ![r] = "fim"]
    /\ UNCHANGED <<transacoes, previsoes, now, usuario_id, pedido, agora,
                   historico, estatisticas, valor_projetado, orcamentos_lidos,
                   indice_risco, mensagem_insight>>

\* create_orcamento, lines 68-77 -> OrcamentoRepository.create: INSERT and
\* commit; UK_ORCAMENTO_MES_ANO_CATEGORIA rejects a row whose key another
\* request has inserted since the validation (IntegrityError)
InserirOrcamento(r) ==
    /\ pc[r] = "inserir_orcamento"
    /\ IF exists_for_categoria_mes_ano(orcamentos, usuario_id[r],
              pedido[r].categoria_id, pedido[r].mes_referencia,
              pedido[r].ano_referencia)
       THEN /\ resultado' = [resultado EXCEPT ![r] = [exc |-> "IntegrityError"]]
            /\ pc' = [pc EXCEPT ![r] = "erro"]
            /\ UNCHANGED orcamentos
       ELSE /\ Cardinality(OrcamentosEmUso) < MaxOrcamentos
            /\ LET orcamento ==
                      Orcamento(NovoId(OrcamentosEmUso, MaxOrcamentos),
                                usuario_id[r], pedido[r].categoria_id,
                                pedido[r].mes_referencia,
                                pedido[r].ano_referencia,
                                pedido[r].limite_total)
               IN  /\ orcamentos' = orcamentos \cup {orcamento}
                   /\ resultado' = [resultado EXCEPT ![r] =
                          [status |-> 201, orcamento |-> orcamento]]
            /\ pc' = [pc EXCEPT ![r] = "fim"]
    /\ UNCHANGED <<transacoes, previsoes, now, usuario_id, pedido, agora,
                   historico, estatisticas, valor_projetado, orcamentos_lidos,
                   indice_risco, mensagem_insight>>

\* update_limite, lines 163-169: the budget is looked up by identifier and
\* user; without it HTTP 404 is raised
BuscarOrcamentoParaLimite(r, orcamento_id, novo_limite) ==
    /\ pc[r] = "ocioso"
    /\ pedido' = [pedido EXCEPT ![r] =
           [tipo |-> "update_limite", id |-> orcamento_id,
            novo_limite |-> novo_limite]]
    /\ IF orcamento_find_by_id(orcamentos, orcamento_id, usuario_id[r]) # None
       THEN /\ pc' = [pc EXCEPT ![r] = "atualizar_limite"]
            /\ UNCHANGED resultado
       ELSE /\ resultado' = [resultado EXCEPT ![r] = [status |-> 404]]
            /\ pc' = [pc EXCEPT ![r] = "fim"]
    /\ UNCHANGED <<store, now, usuario_id, agora, historico, estatisticas,
                   valor_projetado, orcamentos_lidos, indice_risco,
                   mensagem_insight>>

\* update_limite, lines 172-173 -> OrcamentoRepository.update: UPDATE by
\* primary key and commit.  CHK_LIMITE_ORCAMENTO rejects a limit <= 0
\* (IntegrityError); a row deleted since the lookup matches nothing
\* (StaleDataError)
AtualizarLimite(r) ==
    /\ pc[r] = "atualizar_limite"
    /\ IF ~\E o \in orcamentos : o.ID_ORCAMENTO = pedido[r].id
       THEN /\ resultado' = [resultado EXCEPT ![r] = [exc |-> "StaleDataError"]]
            /\ pc' = [pc EXCEPT ![r] = "erro"]
            /\ UNCHANGED orcamentos
       ELSE IF pedido[r].novo_limite <= 0
       THEN /\ resultado' = [resultado EXCEPT ![r] = [exc |-> "IntegrityError"]]
            /\ pc' = [pc EXCEPT ![r] = "erro"]
            /\ UNCHANGED orcamentos
       ELSE /\ orcamentos' =
                   { IF o.ID_ORCAMENTO = pedido[r].id
                     THEN [o EXCEPT !.LIMITE_TOTAL = pedido[r].novo_limite]
                     ELSE o : o \in orcamentos }
            /\ resultado' = [resultado EXCEPT ![r] = [status |-> 200]]
            /\ pc' = [pc EXCEPT ![r] = "fim"]
    /\ UNCHANGED <<transacoes, previsoes, now, usuario_id, pedido, agora,
                   historico, estatisticas, valor_projetado, orcamentos_lidos,
                   indice_risco, mensagem_insight>>

\* OrcamentoRepository.delete, line 63: the row is looked up by identifier
\* and user; without it delete_orcamento raises 404
BuscarOrcamento(r, orcamento_id) ==
    /\ pc[r] = "ocioso"
    /\ pedido' = [pedido EXCEPT ![r] =
           [tipo |-> "delete_orcamento", id |-> orcamento_id]]
    /\ IF orcamento_find_by_id(orcamentos, orcamento_id, usuario_id[r]) # None
       THEN /\ pc' = [pc EXCEPT ![r] = "deletar_orcamento"]
            /\ UNCHANGED resultado
       ELSE /\ resultado' = [resultado EXCEPT ![r] = [status |-> 404]]
            /\ pc' = [pc EXCEPT ![r] = "fim"]
    /\ UNCHANGED <<store, now, usuario_id, agora, historico, estatisticas,
                   valor_projetado, orcamentos_lidos, indice_risco,
                   mensagem_insight>>

\* OrcamentoRepository.delete, lines 64-67: DELETE by primary key and commit
DeletarOrcamento(r) ==
    /\ pc[r] = "deletar_orcamento"
    /\ orcamentos' = { o \in orcamentos : o.ID_ORCAMENTO # pedido[r].id }
    /\ resultado' = [resultado EXCEPT ![r] = [status |-> 200]]
    /\ pc' = [pc EXCEPT ![r] = "fim"]
    /\ UNCHANGED <<transacoes, previsoes, now, usuario_id, pedido, agora,
                   historico, estatisticas, valor_projetado, orcamentos_lidos,
                   indice_risco, mensagem_insight>>

\* main.py: an HTTPException keeps its status code, integrity_error_handler
\* answers an IntegrityError with HTTP 400, and any other exception that
\* leaves the handler is answered with HTTP 500
status_code(res) ==
    IF "status" \in DOMAIN res THEN res.status
    ELSE IF "exc" \in DOMAIN res /\ res.exc = "IntegrityError" THEN 400
    ELSE 500

(***************************************************************************)
(* Requests of the API: the dashboard                                      *)
(***************************************************************************)

\* get_dashboard_overview, lines 63-68: now is taken and the totals of the
\* month are read; pedido[r] keeps what the router holds
DashboardTotais(r) ==
    /\ pc[r] = "ocioso"
    /\ pedido' = [pedido EXCEPT ![r] =
           [tipo |-> "dashboard_overview", now |-> now,
            estatisticas_mes |->
                get_totais_por_tipo(transacoes, usuario_id[r], now.mes, now.ano),
            orcamentos_response |-> <<>>]]
    /\ pc' = [pc EXCEPT ![r] = "dashboard_orcamentos"]
    /\ UNCHANGED <<store, now, usuario_id, locals>>

\* get_dashboard_overview, lines 71-89: the budgets of the month with their
\* status
DashboardOrcamentos(r) ==
    /\ pc[r] = "dashboard_orcamentos"
    /\ \E lista \in Enumeracoes(find_all_by_mes_ano(orcamentos, usuario_id[r],
                                                    now.mes, now.ano)) :
          pedido' = [pedido EXCEPT ![r].orcamentos_response =
              get_orcamentos_com_status(transacoes, lista, now, usuario_id[r],
                                        now.mes, now.ano)]
    /\ pc' = [pc EXCEPT ![r] = "dashboard_previsao"]
    /\ UNCHANGED <<store, now, usuario_id, locals>>

\* get_dashboard_overview, lines 92-94: get_ultima_previsao
DashboardPrevisao(r) ==
    /\ pc[r] = "dashboard_previsao"
    /\ LET previsao == find_mais_recente_por_usuario(previsoes, usuario_id[r])
       IN  IF previsao # None
           THEN /\ resultado' = [resultado EXCEPT ![r] = previsao]
                /\ pc' = [pc EXCEPT ![r] = "fim"]
           ELSE /\ pc' = [pc EXCEPT ![r] = "gerar"]
                /\ UNCHANGED resultado
    /\ UNCHANGED <<store, now, usuario_id, pedido, agora, historico,
                   estatisticas, valor_projetado, orcamentos_lidos,
                   indice_risco, mensagem_insight>>

\* lines 109-116: the share of the summed limits that is spent, in
\* hundredths of a percent
percentual_gasto_total(total_saidas, orcamentos_response) ==
    LET limite_total_orcamentos ==
            SomaSeq([i \in 1..Len(orcamentos_response) |->
                        orcamentos_response[i].orcamento.LIMITE_TOTAL])
    IN  IF limite_total_orcamentos > 0
        THEN DecQuantizeCents(
                 DecMul(DecDiv(total_saidas, 0, limite_total_orcamentos),
                        100, 0))
        ELSE 0

\* get_dashboard_overview, lines 96-141: once get_ultima_previsao has
\* returned, the response is built
DashboardCalcular(r) ==
    /\ pc[r] = "fim"
    /\ pedido[r] # None
    /\ pedido[r].tipo = "dashboard_overview"
    /\ LET estatisticas_mes == pedido[r].estatisticas_mes
           total_saidas == estatisticas_mes.total_saidas
           agr == pedido[r].now
       IN  resultado' = [resultado EXCEPT ![r] =
               [status |-> 200,
                total_entradas_mes |-> estatisticas_mes.total_entradas,
                total_saidas_mes |-> total_saidas,
                saldo_mes |-> estatisticas_mes.saldo,
                orcamentos |-> pedido[r].orcamentos_response,
                previsao_ia |-> resultado[r],
                percentual_gasto_total |->
                    percentual_gasto_total(total_saidas,
                                           pedido[r].orcamentos_response),
                dias_restantes_mes |-> dias_no_mes(agr) - agr.dia,
                media_gasto_diario |->
                    IF agr.dia > 0
                    THEN DecQuantizeCents(DecDiv(total_saidas, -2, agr.dia))
                    ELSE 0]]
    /\ pc' = [pc EXCEPT ![r] = "respondido"]
    /\ UNCHANGED <<store, now, usuario_id, pedido, agora, historico,
                   estatisticas, valor_projetado, orcamentos_lidos,
                   indice_risco, mensagem_insight>>

\* the steps of get_dashboard_overview
DashboardOverview(r) ==
    \/ DashboardTotais(r)
    \/ DashboardOrcamentos(r)
    \/ DashboardPrevisao(r)
    \/ DashboardCalcular(r)

(***************************************************************************)
(* SpecPrevisao: two requests of u1 fetch or refresh the prediction while  *)
(* a third request creates or deletes a ledger entry or a budget of u1     *)
(***************************************************************************)

TransacoesPrevisao ==
    { Transacao(1, "u1", "c1", 40000, Data(2026, 1, 10), "SAIDA"),
      Transacao(2, "u1", "c1", 30000, Data(2026, 2, 5), "SAIDA") }

OrcamentosPrevisao == { Orcamento(1, "u1", "c1", 2, 2026, 100000) }

\* the prediction gerar_previsao stored on 2026-02-01 for u1, who had no
\* ledger entry and no budget then
PrevisaoAnterior ==
    [ID_PREVISAO |-> 1, ID_USUARIO |-> "u1",
     DATA_GERACAO |-> [data |-> Data(2026, 2, 1), instante |-> 1],
     VALOR_PROJETADO |-> 0, INDICE_RISCO |-> "AMARELO",
     MENSAGEM_INSIGHT |->
         _gerar_mensagem_insight("AMARELO", 0, EstatisticasCom("estavel")),
     MES_ALVO |-> 2, ANO_ALVO |-> 2026]

InitPrevisao ==
    /\ now = Data(2026, 2, 20)
    /\ transacoes \in SUBSET TransacoesPrevisao
    /\ orcamentos \in SUBSET OrcamentosPrevisao
    /\ previsoes \in {{}, {PrevisaoAnterior}}
    /\ pc = [r \in Reqs |-> "ocioso"]
    /\ usuario_id = [r \in Reqs |-> "u1"]
    /\ pedido = SemLocais
    /\ agora = SemLocais
    /\ historico = SemLocais
    /\ estatisticas = SemLocais
    /\ valor_projetado = SemLocais
    /\ orcamentos_lidos = SemLocais
    /\ indice_risco = SemLocais
    /\ mensagem_insight = SemLocais
    /\ resultado = SemLocais

\* the steps of gerar_previsao
GerarPrevisao(r) ==
    \/ GerarHistorico(r)
    \/ CalcularEstatisticas(r)
    \/ ProjetarGastoMes(r)
    \/ RiscoOrcamentos(r)
    \/ RiscoTotais(r)
    \/ GerarMensagem(r)
    \/ SalvarPrevisao(r)

\* the ledger and budget requests of u1 that run beside the predictions
MudarDados(r) ==
    \/ CriarTransacao(r, "c1", 60000, now, "SAIDA")
    \/ \E id \in 1..MaxTransacoes : BuscarTransacao(r, id)
    \/ DeletarTransacao(r)
    \/ ValidarOrcamento(r, "c1", now.mes, now.ano, 100000)
    \/ InserirOrcamento(r)
    \/ \E id \in 1..MaxOrcamentos : BuscarOrcamento(r, id)
    \/ DeletarOrcamento(r)

NextPrevisao ==
    \/ \E r \in {"r1", "r2"} :
          \/ GetUltimaPrevisao(r)
          \/ RefreshPrediction(r)
          \/ GerarPrevisao(r)
    \/ MudarDados("r3")

SpecPrevisao == InitPrevisao /\ [][NextPrevisao]_vars

\* request r is running the operation tipo
Pedindo(r, tipo) == pedido[r] # None /\ pedido[r].tipo = tipo
\* this step starts the operation tipo for request r
Comeca(r, tipo) ==
    pc[r] = "ocioso" /\ pedido'[r] # None /\ pedido'[r].tipo = tipo
\* this step is a step of request r
Passo(r) == pc'[r] # pc[r]
PrevisoesDe(usuario) == { p \in previsoes : p.ID_USUARIO = usuario }

\* C14: get_ultima_previsao returns the stored prediction of the user with
\* the latest generation timestamp and persists nothing when the user has
\* one; when the user has none it runs the engine, which persists exactly
\* one new prediction of that user, and returns that record.
C14_BuscaOuGera ==
    [][\A r \in {"r1", "r2"} :
          /\ Comeca(r, "get_ultima_previsao") =>
                IF PrevisoesDe(usuario_id[r]) # {}
                THEN /\ pc'[r] = "fim"
                     /\ resultado'[r] \in PrevisoesDe(usuario_id[r])
                     /\ \A q \in PrevisoesDe(usuario_id[r]) :
                           q.DATA_GERACAO.instante
                               <= resultado'[r].DATA_GERACAO.instante
                     /\ previsoes' = previsoes
                ELSE pc'[r] = "gerar"
          /\ Pedindo(r, "get_ultima_previsao") /\ Passo(r) =>
                /\ pc'[r] # "erro"
                /\ IF pc[r] = "salvar"
                   THEN /\ pc'[r] = "fim"
                        /\ resultado'[r] \notin previsoes
                        /\ resultado'[r].ID_USUARIO = usuario_id[r]
                        /\ previsoes' = previsoes \cup {resultado'[r]}
                   ELSE previsoes' = previsoes
    ]_vars

\* C15: every refresh (refresh_prediction -> gerar_previsao) runs the engine
\* and persists exactly one new prediction, also when the user already has
\* one, so that n refreshes add n predictions; a lazy get_ultima_previsao
\* persists at most one prediction, and none when the user has one.
C15_RefreshSemprePersiste ==
    [][\A r \in {"r1", "r2"} :
          /\ Comeca(r, "refresh_prediction") =>
                pc'[r] = "gerar" /\ previsoes' = previsoes
          /\ Pedindo(r, "refresh_prediction") /\ Passo(r) =>
                /\ pc'[r] # "erro"
                /\ IF pc[r] = "salvar"
                   THEN /\ previsoes \subseteq previsoes'
                        /\ Cardinality({ p \in previsoes' :
                                           p.ID_USUARIO = usuario_id[r] })
                              = Cardinality(PrevisoesDe(usuario_id[r])) + 1
                        /\ Cardinality(previsoes') = Cardinality(previsoes) + 1
                   ELSE previsoes' = previsoes
          /\ Comeca(r, "get_ultima_previsao")
                 /\ PrevisoesDe(usuario_id[r]) # {} =>
                pc'[r] = "fim" /\ previsoes' = previsoes
          /\ Pedindo(r, "get_ultima_previsao") /\ Passo(r) /\ pc[r] # "salvar" =>
                previsoes' = previsoes
    ]_vars

\* the prediction of u1 with the latest generation timestamp
UltimaDeU1 ==
    CHOOSE p \in PrevisoesDe("u1") :
        \A q \in PrevisoesDe("u1") :
            q.DATA_GERACAO.instante <= p.DATA_GERACAO.instante

\* C16 as the spec states it: once the user has a prediction, only the
\* prediction a refresh persists changes the stored predictions, and with
\* them what get-or-generate returns.
C16_SoRefreshMuda ==
    [][PrevisoesDe("u1") # {} /\ previsoes' # previsoes =>
          \E r \in Reqs : /\ Pedindo(r, "refresh_prediction")
                          /\ pc[r] = "salvar" /\ Passo(r)
    ]_vars

\* C16, amended: once a user has a prediction P, no creation or deletion of
\* a ledger entry or a budget changes the stored predictions, and
\* get-or-generate returns the latest stored prediction as stored and
\* creates none; the stored predictions change only when gerar_previsao
\* persists a new one, in a refresh or in a get-or-generate call that began
\* before the user had any prediction.
C16_SemInvalidacao ==
    [][PrevisoesDe("u1") # {} =>
          /\ previsoes \subseteq previsoes'
          /\ previsoes' # previsoes =>
                \E r \in {"r1", "r2"} :
                    /\ pc[r] = "salvar" /\ Passo(r)
                    /\ \/ Pedindo(r, "refresh_prediction")
                       \/ Pedindo(r, "get_ultima_previsao")
          /\ Passo("r3") => previsoes' = previsoes
          /\ \A r \in {"r1", "r2"} :
                Comeca(r, "get_ultima_previsao") =>
                    /\ pc'[r] = "fim"
                    /\ resultado'[r] = UltimaDeU1
                    /\ previsoes' = previsoes
    ]_vars

\* the prediction of 2026-02-01 (projected 0) is returned although the
\* ledger holds an outflow created in this month by the third request
C16_Witness ==
    /\ previsoes = {PrevisaoAnterior}
    /\ Pedindo("r3", "create_transacao") /\ pc["r3"] = "fim"
    /\ resultado["r3"].status = 201
    /\ resultado["r3"].transacao \in transacoes
    /\ Pedindo("r2", "get_ultima_previsao") /\ pc["r2"] = "fim"
    /\ resultado["r2"] = PrevisaoAnterior
    /\ pc["r1"] = "ocioso"

\* C17: two concurrent get_ultima_previsao calls of a user without a
\* prediction both find none and each persists the prediction it computed,
\* whatever has been persisted meanwhile: no lock, no second lookup and no
\* deduplication stands between a lazy call and its INSERT.
C17_SemDeduplicacao ==
    [][\A r \in {"r1", "r2"} :
          Pedindo(r, "get_ultima_previsao") /\ pc[r] = "salvar" /\ Passo(r) =>
              /\ resultado'[r] \notin previsoes
              /\ previsoes' = previsoes \cup {resultado'[r]}
              /\ resultado'[r].ID_USUARIO = usuario_id[r]
              /\ resultado'[r].VALOR_PROJETADO = valor_projetado[r]
              /\ resultado'[r].INDICE_RISCO = indice_risco[r]
    ]_vars

\* two predictions of u1, each persisted by a lazy call, with different
\* projected amounts: the ledger entry of the third request came between
\* the two computations
C17_Witness ==
    /\ Pedindo("r1", "get_ultima_previsao") /\ pc["r1"] = "fim"
    /\ Pedindo("r2", "get_ultima_previsao") /\ pc["r2"] = "fim"
    /\ resultado["r1"] # resultado["r2"]
    /\ previsoes = {resultado["r1"], resultado["r2"]}
    /\ resultado["r1"].ID_USUARIO = "u1" /\ resultado["r2"].ID_USUARIO = "u1"
    /\ resultado["r1"].VALOR_PROJETADO # resultado["r2"].VALOR_PROJETADO
    /\ Pedindo("r3", "create_transacao") /\ pc["r3"] = "fim"

(***************************************************************************)
(* SpecIdem: the budget listing is asked for twice while nothing is        *)
(* written                                                                 *)
(***************************************************************************)

InitIdem ==
    /\ now \in {Data(2026, 1, 15), Data(2026, 2, 15)}
    /\ orcamentos \in SubconjuntosAte(OrcamentosStatus, MaxOrcamentos)
    /\ transacoes \in SubconjuntosAte(TransacoesStatus, MaxTransacoes)
    /\ previsoes = {}
    /\ pc = [r \in Reqs |-> IF r \in {"r1", "r2"} THEN "status" ELSE "ocioso"]
    /\ usuario_id = [r \in Reqs |-> "u1"]
    /\ pedido = SemLocais
    /\ agora = SemLocais
    /\ historico = SemLocais
    /\ estatisticas = SemLocais
    /\ valor_projetado = SemLocais
    /\ orcamentos_lidos = SemLocais
    /\ indice_risco = SemLocais
    /\ mensagem_insight = SemLocais
    /\ resultado = SemLocais

NextIdem == \E r \in {"r1", "r2"} : GetOrcamentosComStatus(r)

SpecIdem == InitIdem /\ [][NextIdem]_vars

\* both listings are done and were asked for the same month and year
DuasListagens ==
    /\ pc["r1"] = "fim" /\ pc["r2"] = "fim"
    /\ resultado["r1"].mes = resultado["r2"].mes
    /\ resultado["r1"].ano = resultado["r2"].ano

\* C13: two calls of the Budget Status Aggregator for the same (user, month,
\* year) with no change of the stored data in between return identical
\* views (same budgets, same order, same actual spend, percent used and
\* remaining balance), and the calls change no stored data.
C13_Idempotente ==
    [][/\ UNCHANGED store
       /\ DuasListagens' => resultado'["r1"].views = resultado'["r2"].views
    ]_vars

(***************************************************************************)
(* SpecOrcamento: two requests, of the same user or of two users, create,  *)
(* update and delete budgets and delete ledger entries, in any order and   *)
(* any interleaving                                                        *)
(***************************************************************************)

PeriodoOrcamento == [mes |-> 1, ano |-> 2026]
LimitesPedidos == {100000}
NovosLimites == {0, 50000}
CategoriasPedidas == {"c1", "c3", "c9"}

TransacoesOrcamento ==
    { Transacao(1, "u1", "c1", 40000, Data(2026, 1, 10), "SAIDA"),
      Transacao(2, "u2", "c3", 30000, Data(2026, 1, 12), "SAIDA") }

OrcamentosOrcamento ==
    { Orcamento(1, "u1", "c1", PeriodoOrcamento.mes, PeriodoOrcamento.ano, 80000),
      Orcamento(2, "u2", "c3", PeriodoOrcamento.mes, PeriodoOrcamento.ano, 90000) }

InitOrcamento ==
    /\ transacoes \in SUBSET TransacoesOrcamento
    /\ orcamentos \in SubconjuntosAte(OrcamentosOrcamento, 1)
    /\ previsoes = {}
    /\ now = Data(2026, 1, 20)
    /\ pc = [r \in Reqs |-> "ocioso"]
    /\ usuario_id \in { [r \in Reqs |-> IF r = "r2" THEN u ELSE "u1"] :
                            u \in Usuarios }
    /\ pedido = SemLocais
    /\ agora = SemLocais
    /\ historico = SemLocais
    /\ estatisticas = SemLocais
    /\ valor_projetado = SemLocais
    /\ orcamentos_lidos = SemLocais
    /\ indice_risco = SemLocais
    /\ mensagem_insight = SemLocais
    /\ resultado = SemLocais

NextOrcamento ==
    \E r \in {"r1", "r2"} :
        \/ \E c \in CategoriasPedidas, l \in LimitesPedidos :
               ValidarOrcamento(r, c, PeriodoOrcamento.mes,
                                PeriodoOrcamento.ano, l)
        \/ InserirOrcamento(r)
        \/ \E id \in 1..MaxOrcamentos, l \in NovosLimites :
               BuscarOrcamentoParaLimite(r, id, l)
        \/ AtualizarLimite(r)
        \/ \E id \in 1..MaxOrcamentos : BuscarOrcamento(r, id)
        \/ DeletarOrcamento(r)
        \/ \E id \in 1..MaxTransacoes : BuscarTransacao(r, id)
        \/ DeletarTransacao(r)
        \/ Retornar(r)

SpecOrcamento == InitOrcamento /\ [][NextOrcamento]_vars

\* the key of the unique constraint UK_ORCAMENTO_MES_ANO_CATEGORIA
ChaveDoOrcamento(o) ==
    <<o.ID_USUARIO, o.ID_CATEGORIA, o.MES_REFERENCIA, o.ANO_REFERENCIA>>

\* C18: in every reachable state, whatever the sequence and interleaving of
\* create_orcamento, update_limite and delete_orcamento calls, no two stored
\* budgets have the same (user, category, month, year)
C18_UmOrcamentoPorChave ==
    \A o1 \in orcamentos, o2 \in orcamentos :
        ChaveDoOrcamento(o1) = ChaveDoOrcamento(o2) => o1 = o2

\* two create_orcamento calls raced for one key: one has inserted its
\* budget, the other passed the validation and was stopped by the constraint
C18_Witness ==
    /\ Pedindo("r1", "create_orcamento") /\ Pedindo("r2", "create_orcamento")
    /\ usuario_id["r1"] = usuario_id["r2"]
    /\ pedido["r1"].categoria_id = pedido["r2"].categoria_id
    /\ \E r \in {"r1", "r2"} :
           /\ pc[r] = "erro"
           /\ resultado[r] = [exc |-> "IntegrityError"]
    /\ \E r \in {"r1", "r2"} :
           /\ pc[r] = "fim"
           /\ status_code(resultado[r]) = 201
           /\ resultado[r].orcamento \in orcamentos

\* this step ends the call of the operation tipo that request r runs
Termina(r, tipo) ==
    /\ pedido'[r] # None
    /\ pedido'[r].tipo = tipo
    /\ pc'[r] # pc[r]
    /\ pc'[r] \in {"fim", "erro"}

C20_SoODonoDeleta ==
    [][\A r \in Reqs :
          /\ Comeca(r, "delete_transacao") =>
                 /\ UNCHANGED <<transacoes, orcamentos>>
                 /\ IF \E t \in transacoes :
                           /\ t.ID_TRANSACAO = pedido'[r].id
                           /\ t.ID_USUARIO = usuario_id[r]
                    THEN pc'[r] \notin {"fim", "erro"}
                    ELSE /\ pc'[r] = "fim"
                         /\ status_code(resultado'[r]) = 404
          /\ Comeca(r, "delete_orcamento") =>
                 /\ UNCHANGED <<transacoes, orcamentos>>
                 /\ IF \E o \in orcamentos :
                           /\ o.ID_ORCAMENTO = pedido'[r].id
                           /\ o.ID_USUARIO = usuario_id[r]
                    THEN pc'[r] \notin {"fim", "erro"}
                    ELSE /\ pc'[r] = "fim"
                         /\ status_code(resultado'[r]) = 404
          /\ (Termina(r, "delete_transacao") /\ pc[r] # "ocioso") =>
                 /\ status_code(resultado'[r]) = 200
                 /\ orcamentos' = orcamentos
                 /\ transacoes' =
                        { t \in transacoes : t.ID_TRANSACAO # pedido[r].id }
                 /\ \A t \in transacoes \ transacoes' :
                        t.ID_USUARIO = usuario_id[r]
                 /\ Cardinality(transacoes \ transacoes') <= 1
          /\ (Termina(r, "delete_orcamento") /\ pc[r] # "ocioso") =>
                 /\ status_code(resultado'[r]) = 200
                 /\ transacoes' = transacoes
                 /\ orcamentos' =
                        { o \in orcamentos : o.ID_ORCAMENTO # pedido[r].id }
                 /\ \A o \in orcamentos \ orcamentos' :
                        o.ID_USUARIO = usuario_id[r]
                 /\ Cardinality(orcamentos \ orcamentos') <= 1
    ]_vars

\* u1 asked to delete the ledger entry of u2, got 404 and the entry is still
\* stored; another request of u1 has deleted the budget 1 of u1
C20_Witness ==
    \E r \in {"r1", "r2"}, q \in {"r1", "r2"} :
        /\ Pedindo(r, "delete_transacao") /\ Pedindo(q, "delete_orcamento")
        /\ pc[r] = "fim" /\ pc[q] = "fim"
        /\ usuario_id[r] = "u1" /\ usuario_id[q] = "u1"
        /\ pedido[r].id = 2
        /\ status_code(resultado[r]) = 404
        /\ \E t \in transacoes : t.ID_TRANSACAO = 2 /\ t.ID_USUARIO = "u2"
        /\ pedido[q].id = 1
        /\ status_code(resultado[q]) = 200
        /\ ~\E o \in orcamentos : o.ID_ORCAMENTO = 1

(***************************************************************************)
(* SpecRetencao: a request of u1 fetches or refreshes the prediction and   *)
(* another changes the ledger and the budgets, while predictions older     *)
(* than the retention window are pruned                                    *)
(***************************************************************************)

\* predictions stored 111 and 90 days before 2026-02-20
PrevisaoVelha ==
    [PrevisaoAnterior EXCEPT !.ID_PREVISAO = 2,
                             !.DATA_GERACAO = [data |-> Data(2025, 11, 1),
                                               instante |-> 0],
                             !.MES_ALVO = 11, !.ANO_ALVO = 2025]

PrevisaoNoLimite ==
    [PrevisaoAnterior EXCEPT !.DATA_GERACAO = [data |-> Data(2025, 11, 22),
                                               instante |-> 1],
                             !.MES_ALVO = 11, !.ANO_ALVO = 2025]

InitRetencao ==
    /\ now = Data(2026, 2, 20)
    /\ transacoes \in SUBSET TransacoesPrevisao
    /\ orcamentos \in SUBSET OrcamentosPrevisao
    /\ previsoes \in { {}, {PrevisaoVelha}, {PrevisaoNoLimite},
                       {PrevisaoVelha, PrevisaoAnterior},
                       {PrevisaoVelha, PrevisaoNoLimite} }
    /\ pc = [r \in Reqs |-> "ocioso"]
    /\ usuario_id = [r \in Reqs |-> "u1"]
    /\ pedido = SemLocais
    /\ agora = SemLocais
    /\ historico = SemLocais
    /\ estatisticas = SemLocais
    /\ valor_projetado = SemLocais
    /\ orcamentos_lidos = SemLocais
    /\ indice_risco = SemLocais
    /\ mensagem_insight = SemLocais
    /\ resultado = SemLocais

NextRetencao ==
    \/ GetUltimaPrevisao("r1")
    \/ RefreshPrediction("r1")
    \/ GerarPrevisao("r1")
    \/ MudarDados("r3")
    \/ \E u \in Usuarios : DeleteAntigas(u)

SpecRetencao == InitRetencao /\ [][NextRetencao]_vars

\* C21: a stored prediction is never modified: in every step, a prediction
\* that is still stored afterwards has the same projected amount, tier,
\* message, target month and year and generation timestamp; a prediction
\* only appears when gerar_previsao stores it, and only disappears when it is
\* at least as old as the retention window
C21_PrevisaoImutavel ==
    [][/\ \A p \in previsoes : \A q \in previsoes' :
              q.ID_PREVISAO = p.ID_PREVISAO => q = p
       /\ \A q \in previsoes' \ previsoes :
              \E r \in Reqs : /\ pc[r] = "salvar" /\ pc'[r] = "fim"
                              /\ resultado'[r] = q
                              /\ previsoes' = previsoes \cup {q}
       /\ \A p \in previsoes \ previsoes' :
              Ordinal(p.DATA_GERACAO.data) + dias_retencao <= Ordinal(now)
    ]_vars

\* the old prediction was pruned, the one of 2026-02-01 is stored as it was,
\* a refresh has stored a new one beside it and the ledger has changed
C21_Witness ==
    /\ PrevisaoVelha \notin previsoes
    /\ PrevisaoAnterior \in previsoes
    /\ Pedindo("r1", "refresh_prediction")
    /\ pc["r1"] = "fim"
    /\ resultado["r1"] \in previsoes
    /\ resultado["r1"] # PrevisaoAnterior
    /\ pc["r3"] = "fim"
    /\ Pedindo("r3", "create_transacao")

(***************************************************************************)
(* SpecMensagem: _gerar_mensagem_insight applied to every tier and trend,  *)
(* a range of projected amounts and statistics                             *)
(***************************************************************************)

Riscos == {"VERDE", "AMARELO", "VERMELHO"}
ValoresMensagem == {0, 1, 9, 10, 99, 100, 418, 100000, 1234567}
HistoricosMensagem == {0, 50000}

InitMensagem ==
    /\ now = Data(2026, 1, 20)
    /\ transacoes = {}
    /\ orcamentos = {}
    /\ previsoes = {}
    /\ pc = [r \in Reqs |-> IF r = "r1" THEN "mensagem" ELSE "ocioso"]
    /\ usuario_id = [r \in Reqs |-> "u1"]
    /\ pedido = SemLocais
    /\ agora = [SemLocais EXCEPT !["r1"] = [gerar |-> now, risco |-> now]]
    /\ historico = SemLocais
    /\ \E tendencia \in Tendencias, h \in HistoricosMensagem :
          estatisticas =
              [SemLocais EXCEPT !["r1"] =
                  [EstatisticasCom(tendencia) EXCEPT
                      !.total_historico = h,
                      !.media_gastos_mes = DecOfInt(h, -2)]]
    /\ \E valor \in ValoresMensagem :
          valor_projetado = [SemLocais EXCEPT !["r1"] = valor]
    /\ orcamentos_lidos = SemLocais
    /\ \E indice \in Riscos :
          indice_risco = [SemLocais EXCEPT !["r1"] = indice]
    /\ mensagem_insight = SemLocais
    /\ resultado = SemLocais

NextMensagem == GerarMensagem("r1")

SpecMensagem == InitMensagem /\ [][NextMensagem]_vars

MensagemGerada == pc["r1"] = "salvar"

\* the number a character of a digit stands for, 10 for any other text
ValorDoAlgarismo(texto) ==
    IF \E d \in 0..9 : Algarismos[d + 1] = texto
    THEN CHOOSE d \in 0..9 : Algarismos[d + 1] = texto
    ELSE 10

\* the amount written in the message m, whose point is at position i: the
\* digits between the opening text and the point, and the two after it
RECURSIVE InteiroEscrito(_, _, _)
InteiroEscrito(m, de, ate) ==
    IF de > ate THEN 0
    ELSE 10 * InteiroEscrito(m, de, ate - 1) + ValorDoAlgarismo(m[ate])

\* the message m is abertura, an amount with at least one integer digit and
\* exactly two fractional digits that reads valor, then fecho and resto
EscreveValor(m, abertura, valor, fecho, resto) ==
    \E i \in 3..(Len(m) - 3) :
        /\ m[1] = abertura
        /\ m[i] = "."
        /\ \A j \in 2..(i - 1) : ValorDoAlgarismo(m[j]) < 10
        /\ ValorDoAlgarismo(m[i + 1]) < 10
        /\ ValorDoAlgarismo(m[i + 2]) < 10
        /\ 100 * InteiroEscrito(m, 2, i - 1)
              + 10 * ValorDoAlgarismo(m[i + 1])
              + ValorDoAlgarismo(m[i + 2]) = valor
        /\ m[i + 3] = fecho
        /\ SubSeq(m, i + 4, Len(m)) = resto

\* C22: the insight message is determined by the tier, the projected amount
\* and the trend: it is the first template of the tier with the amount
\* written with exactly 2 fractional digits, followed by the trend clause
\* exactly when the trend is rising and the tier is not VERDE; the second
\* and third templates of the tier never appear
C22_PrimeiroModelo ==
    MensagemGerada =>
        LET m == mensagem_insight["r1"]
            indice == indice_risco["r1"]
            valor == valor_projetado["r1"]
            resto == IF /\ estatisticas["r1"].tendencia = "crescente"
                        /\ indice # "VERDE"
                     THEN <<" Seus gastos tem aumentado nos ultimos meses.">>
                     ELSE <<>>
        IN  /\ indice = "VERDE" =>
                   EscreveValor(m,
                       "Otimo trabalho! Seu gasto projetado e de R$ ", valor,
                       ". Voce esta no controle!", resto)
            /\ indice = "AMARELO" =>
                   EscreveValor(m, "Atencao: Gasto projetado de R$ ", valor,
                       ". Considere revisar gastos nao essenciais.", resto)
            /\ indice = "VERMELHO" =>
                   EscreveValor(m, "Alerta! Gasto projetado de R$ ", valor,
                       " pode exceder seu orcamento. Priorize o essencial!",
                       resto)
            /\ \A k \in {2, 3} :
                   SubSeq(m, 1, Len(m) - Len(resto)) # mensagens(valor)[indice][k]

\* AMARELO with a rising trend and 4.18 projected: the first template with
\* "4.18" and the trend clause
C22_Witness ==
    /\ MensagemGerada
    /\ indice_risco["r1"] = "AMARELO"
    /\ estatisticas["r1"].tendencia = "crescente"
    /\ estatisticas["r1"].total_historico > 0
    /\ valor_projetado["r1"] = 418
    /\ mensagem_insight["r1"] =
           <<"Atencao: Gasto projetado de R$ ", "4", ".", "1", "8",
             ". Considere revisar gastos nao essenciais.",
             " Seus gastos tem aumentado nos ultimos meses.">>

(***************************************************************************)
(* SpecRazao: the classifier, the budget listing and the dashboard applied *)
(* to budgets whose limits are zero, negative and positive.  The functions *)
(* guard their divisions against such limits; CHK_LIMITE_ORCAMENTO keeps   *)
(* them out of a table created with it, so they are given as stored rows   *)
(* of a table without the constraint                                       *)
(***************************************************************************)

OrcamentosRazao ==
    { Orcamento(1, "u1", "c1", 2, 2026, 0),
      Orcamento(2, "u1", "c2", 2, 2026, 0 - 5000),
      Orcamento(3, "u1", "c1", 2, 2026, 100000),
      Orcamento(4, "u1", "c1", 2, 2026, 5000) }

TransacoesRazao ==
    { Transacao(1, "u1", "c1", 60000, Data(2026, 2, 5), "SAIDA"),
      Transacao(2, "u1", "c2", 3000, Data(2026, 2, 6), "SAIDA"),
      Transacao(3, "u1", "c1", 10000, Data(2026, 2, 7), "ENTRADA") }

ValoresRazao == {0, 90001}

InitRazao ==
    /\ now = Data(2026, 2, 15)
    /\ orcamentos \in
           { X \in SubconjuntosAte(OrcamentosRazao, MaxOrcamentos) :
               \A o1 \in X, o2 \in X :
                   o1.ID_CATEGORIA = o2.ID_CATEGORIA => o1 = o2 }
    /\ transacoes \in SubconjuntosAte(TransacoesRazao, MaxTransacoes)
    /\ previsoes \in {{}, {PrevisaoAnterior}}
    /\ pc = [r \in Reqs |-> CASE r = "r1" -> "risco"
                              [] r = "r2" -> "status"
                              [] OTHER -> "ocioso"]
    /\ usuario_id = [r \in Reqs |-> "u1"]
    /\ pedido = SemLocais
    /\ agora = [SemLocais EXCEPT !["r1"] = [gerar |-> now, risco |-> None]]
    /\ historico = SemLocais
    /\ \E tendencia \in Tendencias :
          estatisticas = [SemLocais EXCEPT !["r1"] = EstatisticasCom(tendencia)]
    /\ \E valor \in ValoresRazao :
          valor_projetado = [SemLocais EXCEPT !["r1"] = valor]
    /\ orcamentos_lidos = SemLocais
    /\ indice_risco = SemLocais
    /\ mensagem_insight = SemLocais
    /\ resultado = SemLocais

NextRazao ==
    \/ RiscoOrcamentos("r1")
    \/ RiscoTotais("r1")
    \/ GetOrcamentosComStatus("r2")
    \/ DashboardOverview("r3")
    \/ GerarPrevisao("r3")

SpecRazao == InitRazao /\ [][NextRazao]_vars

\* the listing r2 has returned, the response of the dashboard to r3
ListagemFeita == pc["r2"] = "fim"
DashboardRespondido == pc["r3"] = "respondido"

\* C23: with a denominator that is zero or negative the ratio is 0 and no
\* division is made: the classifier, given budgets whose limits sum to at
\* most 0, has both percentages 0 and so returns VERDE; the view of a
\* budget with a limit of at most 0 has percentual_uso 0; the dashboard
\* whose budgets sum to at most 0 has percentual_gasto_total 0
C23_DenominadorNaoPositivo ==
    /\ (RiscoCalculado /\ ~Regra1 /\ LimiteTotalU1 <= 0)
           => indice_risco["r1"] = "VERDE"
    /\ ListagemFeita =>
           \A i \in 1..Len(resultado["r2"].views) :
               resultado["r2"].views[i].orcamento.LIMITE_TOTAL <= 0
                   => resultado["r2"].views[i].percentual_uso.c = <<>>
    /\ DashboardRespondido =>
           /\ LimiteTotalU1 <= 0
                  => resultado["r3"].percentual_gasto_total = 0
           /\ \A i \in 1..Len(resultado["r3"].orcamentos) :
                  resultado["r3"].orcamentos[i].orcamento.LIMITE_TOTAL <= 0
                      => resultado["r3"].orcamentos[i].percentual_uso.c = <<>>

\* budgets of 50.00 and -50.00, 630.00 spent by day 15, a rising trend and
\* 900.01 projected: VERDE; the listing shows 0 percent for the budget of
\* -50.00 with 30.00 spent on it, the dashboard 0 percent in total
C23_Witness ==
    /\ RiscoCalculado /\ ListagemFeita /\ DashboardRespondido
    /\ Cardinality(OrcamentosAtivosU1) = 2
    /\ LimiteTotalU1 = 0
    /\ SaidasDoMesU1 = 63000
    /\ estatisticas["r1"].tendencia = "crescente"
    /\ valor_projetado["r1"] = 90001
    /\ indice_risco["r1"] = "VERDE"
    /\ \E i \in 1..Len(resultado["r2"].views) :
           /\ resultado["r2"].views[i].orcamento.LIMITE_TOTAL < 0
           /\ resultado["r2"].views[i].gasto_atual = 3000
           /\ resultado["r2"].views[i].percentual_uso.c = <<>>
    /\ resultado["r3"].total_saidas_mes = 63000
    /\ resultado["r3"].percentual_gasto_total = 0

(***************************************************************************)
(* The reads of one gerar_previsao call, under SpecPrevisao                *)
(***************************************************************************)

\* C24: one gerar_previsao call works on a single snapshot: when the
\* classifier reads the outflow of the month to compute currentPct, the
\* ledger it reads is the one the projected amount and the history of the
\* call were computed from, even when another request creates or deletes a
\* ledger entry of the user meanwhile
C24_UmSoRetrato ==
    [][\A r \in Reqs :
          (pc[r] = "risco_totais" /\ pc'[r] = "mensagem") =>
              /\ valor_projetado[r] =
                     _projetar_gasto_mes(transacoes, agora[r].gerar,
                                         usuario_id[r], estatisticas[r])
              /\ historico[r] =
                     get_historico_para_ia(transacoes, agora[r].gerar,
                                           usuario_id[r], 6)
    ]_vars

(***************************************************************************)
(* The docstring of the classifier, under SpecRisco                        *)
(***************************************************************************)

OrcamentosRitmo(agr) ==
    { Orcamento(1, "u1", "c1", agr.mes, agr.ano, 100000),
      Orcamento(2, "u1", "c2", agr.mes, agr.ano, 17),
      Orcamento(3, "u1", "c3", agr.mes, agr.ano, 1) }

TransacoesRitmo(agr) ==
    { Transacao(1, "u1", "c1", 70001, Data(agr.ano, agr.mes, 1), "SAIDA"),
      Transacao(2, "u1", "c1", 70000, Data(agr.ano, agr.mes, 1), "SAIDA"),
      Transacao(3, "u1", "c2", 12, Data(agr.ano, agr.mes, 1), "SAIDA"),
      Transacao(4, "u1", "c3", 1, Data(agr.ano, agr.mes, 1), "SAIDA"),
      Transacao(5, "u1", "c1", 50000, Data(agr.ano, agr.mes, 1), "ENTRADA") }

InitRitmo ==
    /\ now \in DatasProj
    /\ orcamentos \in SubconjuntosAte(OrcamentosRitmo(now), MaxOrcamentos)
    /\ transacoes \in SubconjuntosAte(TransacoesRitmo(now), MaxTransacoes)
    /\ previsoes = {}
    /\ pc = [r \in Reqs |-> IF r = "r1" THEN "projetar" ELSE "ocioso"]
    /\ usuario_id = [r \in Reqs |-> "u1"]
    /\ pedido = SemLocais
    /\ agora = [SemLocais EXCEPT !["r1"] = [gerar |-> now, risco |-> None]]
    /\ historico = SemLocais
    /\ \E tendencia \in Tendencias :
          estatisticas = [SemLocais EXCEPT !["r1"] = EstatisticasCom(tendencia)]
    /\ valor_projetado = SemLocais
    /\ orcamentos_lidos = SemLocais
    /\ indice_risco = SemLocais
    /\ mensagem_insight = SemLocais
    /\ resultado = SemLocais

NextRitmo ==
    \/ ProjetarGastoMes("r1")
    \/ RiscoOrcamentos("r1")
    \/ RiscoTotais("r1")

SpecRitmo == InitRitmo /\ [][NextRitmo]_vars

\* C26: when the projected amount is the projector's for the spend and the
\* day the classifier sees, budgets with a positive total limit, currentPct >
\* 70 and a day before the 20th imply projectedPct > 90, in months of 28 to
\* 31 days and with every trend: the tier VERMELHO is then the second rule's
\* and the third rule never decides it.
C26_Regra3NuncaDecide ==
    RiscoCalculado /\ ~Regra1 /\ Regra3 =>
        /\ Regra2
        /\ indice_risco["r1"] = "VERMELHO"

\* day 19 of a February of 28 days, a falling trend, inflow in the ledger and
\* a spend just above 70% of the limit: projectedPct is already above 90
C26_Witness ==
    /\ RiscoCalculado
    /\ now.dia = 19 /\ DiasDoMesAtual = 28
    /\ estatisticas["r1"].tendencia = "decrescente"
    /\ LimiteTotalU1 = 100000 /\ SaidasDoMesU1 = 70001
    /\ \E t \in transacoes : t.TIPO = "ENTRADA"
    /\ Regra3 /\ Regra2
    /\ indice_risco["r1"] = "VERMELHO"

(***************************************************************************)
(* SpecBase: _projetar_gasto_mes given statistics with a historical mean   *)
(* and a total, on every day of the months of SpecProj                     *)
(***************************************************************************)

MediasBase == {0, 5000, 123456}

EstatisticasBase(media, tendencia) ==
    [media_gastos_mes |-> DecOfInt(media, -2), desvio_padrao |-> DecZero,
     tendencia |-> tendencia, total_historico |-> media, exc |-> ""]

InitBase ==
    /\ now \in DatasProj
    /\ orcamentos = {}
    /\ transacoes \in SubconjuntosAte(TransacoesProj(now), MaxTransacoes)
    /\ previsoes = {}
    /\ pc = [r \in Reqs |-> IF r = "r1" THEN "projetar" ELSE "ocioso"]
    /\ usuario_id = [r \in Reqs |-> "u1"]
    /\ pedido = SemLocais
    /\ agora = [SemLocais EXCEPT !["r1"] = [gerar |-> now, risco |-> None]]
    /\ historico = SemLocais
    /\ \E media \in MediasBase, tendencia \in Tendencias :
          estatisticas =
              [SemLocais EXCEPT !["r1"] = EstatisticasBase(media, tendencia)]
    /\ valor_projetado = SemLocais
    /\ orcamentos_lidos = SemLocais
    /\ indice_risco = SemLocais
    /\ mensagem_insight = SemLocais
    /\ resultado = SemLocais

NextBase == ProjetarGastoMes("r1")

SpecBase == InitBase /\ [][NextBase]_vars

TransacoesSoma ==
    { Transacao(1, "u1", "c1", 40000, Data(2026, 1, 10), "SAIDA"),
      Transacao(2, "u1", "c2", 3000, Data(2026, 1, 11), "SAIDA"),
      Transacao(3, "u1", "c1", 10000, Data(2026, 1, 12), "ENTRADA"),
      Transacao(4, "u1", "c1", 700, Data(2026, 2, 1), "SAIDA"),
      Transacao(5, "u2", "c1", 30000, Data(2026, 1, 12), "SAIDA") }

OrcamentosSoma == { Orcamento(1, "u1", "c2", 1, 2026, 5000) }

PeriodosSoma == { [mes |-> 1, ano |-> 2026], [mes |-> 2, ano |-> 2026] }

InitSoma ==
    /\ transacoes \in SubconjuntosAte(TransacoesSoma, MaxTransacoes)
    /\ orcamentos \in SubconjuntosAte(OrcamentosSoma, 1)
    /\ previsoes = {}
    /\ now = Data(2026, 1, 20)
    /\ pc = [r \in Reqs |-> IF r = "r3" THEN "status" ELSE "ocioso"]
    /\ usuario_id \in { [r \in Reqs |-> IF r = "r2" THEN u ELSE "u1"] :
                            u \in Usuarios }
    /\ pedido = SemLocais
    /\ agora = SemLocais
    /\ historico = SemLocais
    /\ estatisticas = SemLocais
    /\ valor_projetado = SemLocais
    /\ orcamentos_lidos = SemLocais
    /\ indice_risco = SemLocais
    /\ mensagem_insight = SemLocais
    /\ resultado = SemLocais

NextSoma ==
    \/ \E r \in {"r1", "r2"} :
          \/ \E c \in {"c1", "c2"}, p \in PeriodosSoma, l \in LimitesPedidos :
                 ValidarOrcamento(r, c, p.mes, p.ano, l)
          \/ InserirOrcamento(r)
    \/ GetOrcamentosComStatus("r3")

SpecSoma == InitSoma /\ [][NextSoma]_vars

\* the sum of gasto_atual over a list of views
RECURSIVE SomaDosGastos(_)
SomaDosGastos(views) ==
    IF views = <<>> THEN 0
    ELSE Head(views).gasto_atual + SomaDosGastos(Tail(views))

TransacoesCategorias ==
    { Transacao(1, "u1", "c2", 95000, Data(2026, 2, 5), "SAIDA"),
      Transacao(2, "u1", "c1", 20000, Data(2026, 2, 6), "SAIDA"),
      Transacao(3, "u1", "c2", 500, Data(2026, 2, 7), "SAIDA"),
      Transacao(4, "u1", "c1", 30000, Data(2026, 1, 7), "ENTRADA") }

OrcamentosCategorias ==
    { Orcamento(1, "u1", "c1", 2, 2026, 100000),
      Orcamento(2, "u1", "c2", 2, 2026, 50000) }

InitCategorias ==
    /\ now \in { Data(2026, 2, dia) : dia \in {1, 10, 19, 20, 28} }
    /\ transacoes \in SubconjuntosAte(TransacoesCategorias, MaxTransacoes)
    /\ orcamentos \in SubconjuntosAte(OrcamentosCategorias, MaxOrcamentos)
    /\ previsoes \in {{}, {PrevisaoAnterior}}
    /\ pc = [r \in Reqs |-> IF r = "r2" THEN "status" ELSE "ocioso"]
    /\ usuario_id = [r \in Reqs |-> "u1"]
    /\ pedido = SemLocais
    /\ agora = SemLocais
    /\ historico = SemLocais
    /\ estatisticas = SemLocais
    /\ valor_projetado = SemLocais
    /\ orcamentos_lidos = SemLocais
    /\ indice_risco = SemLocais
    /\ mensagem_insight = SemLocais
    /\ resultado = SemLocais

NextCategorias ==
    \/ GetUltimaPrevisao("r1")
    \/ RefreshPrediction("r1")
    \/ GerarPrevisao("r1")
    \/ GetOrcamentosComStatus("r2")

SpecCategorias == InitCategorias /\ [][NextCategorias]_vars

\* C29: the projected amount is the pace of the whole outflow of the month,
\* budgeted category or not, and the tier of a user with budgets is VERMELHO
\* exactly when that amount, or that outflow before the 20th, is too large a
\* share of the summed limits of the budgets.
C29_GastoDeTodasAsCategorias ==
    pc["r1"] \in {"mensagem", "salvar"} =>
        /\ LET erro == DenominadorExato * valor_projetado["r1"] - NumeradorExato
           IN  2 * erro <= DenominadorExato /\ 2 * erro >= 0 - DenominadorExato
        /\ ~Regra1 => (indice_risco["r1"] = "VERMELHO" <=> Regra2 \/ Regra3)

\* a prediction just generated and stored with tier VERMELHO, while the
\* listing of the month has returned a view and every view has
\* percentual_uso 0: all the outflow is in a category without a budget
C29_Witness ==
    /\ pc["r1"] = "fim"
    /\ resultado["r1"] \in previsoes
    /\ resultado["r1"] # PrevisaoAnterior
    /\ resultado["r1"].INDICE_RISCO = "VERMELHO"
    /\ pc["r2"] = "fim"
    /\ resultado["r2"].mes = now.mes /\ resultado["r2"].ano = now.ano
    /\ resultado["r2"].views # <<>>
    /\ \A i \in 1..Len(resultado["r2"].views) :
          /\ resultado["r2"].views[i].percentual_uso = DecZero
          /\ resultado["r2"].views[i].gasto_atual = 0
    /\ SaidasDoMesU1 > 0

(***************************************************************************)
(* SpecIsolamento: a request of u1 and a request of u2 run any operation   *)
(* of the API side by side; both users have entries and budgets in the     *)
(* shared category c1                                                      *)
(***************************************************************************)

TransacoesIsolamento ==
    { Transacao(1, "u1", "c1", 40000, Data(2026, 2, 5), "SAIDA"),
      Transacao(2, "u2", "c1", 30000, Data(2026, 2, 6), "SAIDA"),
      Transacao(3, "u2", "c3", 2000, Data(2026, 2, 6), "ENTRADA") }

OrcamentosIsolamento ==
    { Orcamento(1, "u1", "c1", 2, 2026, 100000),
      Orcamento(2, "u2", "c1", 2, 2026, 50000) }

FiltrosDeData == { None, Data(2026, 2, 6) }

InitIsolamento ==
    /\ now = Data(2026, 2, 20)
    /\ transacoes \in SubconjuntosAte(TransacoesIsolamento, MaxTransacoes)
    /\ orcamentos \in SubconjuntosAte(OrcamentosIsolamento, MaxOrcamentos)
    /\ previsoes \in {{}, {PrevisaoAnterior}}
    /\ pc \in { [r \in Reqs |-> IF r = "r3" THEN "ocioso" ELSE f[r]] :
                    f \in [{"r1", "r2"} -> {"ocioso", "status"}] }
    /\ usuario_id = [r \in Reqs |-> IF r = "r2" THEN "u2" ELSE "u1"]
    /\ pedido = SemLocais
    /\ agora = SemLocais
    /\ historico = SemLocais
    /\ estatisticas = SemLocais
    /\ valor_projetado = SemLocais
    /\ orcamentos_lidos = SemLocais
    /\ indice_risco = SemLocais
    /\ mensagem_insight = SemLocais
    /\ resultado = SemLocais

NextIsolamento ==
    \E r \in {"r1", "r2"} :
        \/ \E c \in {"c1", "c3"} : CriarTransacao(r, c, 60000, now, "SAIDA")
        \/ \E di \in FiltrosDeData, c \in {"", "c1"}, t \in {"", "SAIDA"} :
               ListarTransacoes(r, di, None, c, t)
        \/ \E id \in 1..MaxTransacoes : BuscarTransacao(r, id)
        \/ DeletarTransacao(r)
        \/ ValidarOrcamento(r, "c1", now.mes, now.ano, 100000)
        \/ InserirOrcamento(r)
        \/ \E id \in 1..MaxOrcamentos : BuscarOrcamento(r, id)
        \/ DeletarOrcamento(r)
        \/ GetOrcamentosComStatus(r)
        \/ GetUltimaPrevisao(r)
        \/ RefreshPrediction(r)
        \/ GerarPrevisao(r)

SpecIsolamento == InitIsolamento /\ [][NextIsolamento]_vars

TransacoesDe(usuario) == { t \in transacoes : t.ID_USUARIO = usuario }
OrcamentosDe(usuario) == { o \in orcamentos : o.ID_USUARIO = usuario }

\* a step of request r, made for user u, leaves the rows of the other users
\* as they are
NaoTocaOsOutros(r, u) ==
    \A outro \in Usuarios \ {u} :
        /\ TransacoesDe(outro)' = TransacoesDe(outro)
        /\ OrcamentosDe(outro)' = OrcamentosDe(outro)
        /\ PrevisoesDe(outro)' = PrevisoesDe(outro)

\* what a step of request r, made for user u, reads and returns is what it
\* would read and return from a store that holds the rows of u alone
SoDependeDosProprios(r, u) ==
    LET T == TransacoesDe(u)
        O == OrcamentosDe(u)
        P == PrevisoesDe(u)
    IN  /\ pc[r] = "gerar" =>
              historico'[r] = get_historico_para_ia(T, now, u, 6)
        /\ pc[r] = "projetar" =>
              valor_projetado'[r] =
                  _projetar_gasto_mes(T, now, u, estatisticas[r])
        /\ pc[r] = "risco" =>
              orcamentos_lidos'[r] = find_all_ativos(O, now, u)
        /\ pc[r] = "risco_totais" =>
              indice_risco'[r] =
                  ClassificarRisco(orcamentos_lidos[r],
                      get_totais_por_tipo(T, u, agora[r].risco.mes,
                                          agora[r].risco.ano).total_saidas,
                      agora[r].risco, valor_projetado[r], estatisticas[r])
        /\ pc[r] = "mensagem" =>
              mensagem_insight'[r] =
                  _gerar_mensagem_insight(indice_risco[r], valor_projetado[r],
                                          estatisticas[r])
        /\ pc[r] = "salvar" =>
              /\ resultado'[r].ID_USUARIO = u
              /\ resultado'[r].VALOR_PROJETADO = valor_projetado[r]
              /\ resultado'[r].INDICE_RISCO = indice_risco[r]
              /\ resultado'[r].MENSAGEM_INSIGHT = mensagem_insight[r]
        /\ pc[r] = "status" =>
              \E lista \in Enumeracoes(
                      find_all_by_mes_ano(O, u, resultado'[r].mes,
                                          resultado'[r].ano)) :
                  resultado'[r].views =
                      get_orcamentos_com_status(T, lista, now, u,
                          resultado'[r].mes, resultado'[r].ano)
        /\ Comeca(r, "list_transactions") =>
              LET S == find_all_by_usuario(T, u, pedido'[r].data_inicio,
                           pedido'[r].data_fim, pedido'[r].categoria_id,
                           pedido'[r].tipo_filtro)
                  lista == resultado'[r].transacoes
              IN  /\ { lista[i].transacao : i \in 1..Len(lista) } = S
                  /\ Len(lista) = Cardinality(S)
                  /\ resultado'[r].total_saidas =
                         Soma({ t \in S : t.TIPO = "SAIDA" }, ValorDe(S))
                  /\ resultado'[r].total_entradas =
                         Soma({ t \in S : t.TIPO = "ENTRADA" }, ValorDe(S))
        /\ Comeca(r, "get_ultima_previsao") =>
              IF P = {} THEN pc'[r] = "gerar"
              ELSE /\ pc'[r] = "fim"
                   /\ resultado'[r] = find_mais_recente_por_usuario(P, u)
        /\ Comeca(r, "delete_transacao") =>
              (pc'[r] = "deletar_transacao"
                   <=> \E t \in T : t.ID_TRANSACAO = pedido'[r].id)
        /\ Comeca(r, "delete_orcamento") =>
              (pc'[r] = "deletar_orcamento"
                   <=> \E o \in O : o.ID_ORCAMENTO = pedido'[r].id)
        /\ Comeca(r, "create_orcamento") =>
              (pc'[r] = "inserir_orcamento"
                   <=> ~exists_for_categoria_mes_ano(O, u,
                           pedido'[r].categoria_id, pedido'[r].mes_referencia,
                           pedido'[r].ano_referencia))
        /\ pc[r] = "inserir_orcamento" =>
              (pc'[r] = "erro"
                   <=> exists_for_categoria_mes_ano(O, u,
                           pedido[r].categoria_id, pedido[r].mes_referencia,
                           pedido[r].ano_referencia))

\* C30: a step made for one user changes no ledger entry, budget or
\* prediction of another user, and what a request reads and returns (the
\* history, the projected amount, the budgets and the tier, the message, the
\* stored prediction, the views, the listed entries and their totals, the
\* outcome of a creation or a deletion) is determined by the rows of its
\* own user: the rows and the operations of the other user do not reach it.
C30_Isolamento ==
    [][\A r \in Reqs :
          Passo(r) => /\ NaoTocaOsOutros(r, usuario_id[r])
                      /\ SoDependeDosProprios(r, usuario_id[r])
    ]_vars

\* u2 has listed the views of its budget for the shared category c1 and got
\* its own spend of 300.00, after u1 created an entry of 600.00 in c1 and
\* while u1 has a budget for c1 too
C30_Witness ==
    /\ pc["r1"] = "fim" /\ Pedindo("r1", "create_transacao")
    /\ status_code(resultado["r1"]) = 201
    /\ resultado["r1"].transacao \in transacoes
    /\ resultado["r1"].transacao.ID_CATEGORIA = "c1"
    /\ OrcamentosDe("u1") # {}
    /\ pc["r2"] = "fim" /\ pedido["r2"] = None
    /\ Len(resultado["r2"].views) = 1
    /\ resultado["r2"].views[1].orcamento.ID_CATEGORIA = "c1"
    /\ resultado["r2"].views[1].gasto_atual = 30000
====
